---- MODULE Spec2Model ----
(***************************************************************************)
(* Aleph Cloud Marketplace: the deployment orchestrator (main.py), the     *)
(* deployment tracker and the remote executor (ssh_executor.py) and the    *)
(* wallet authentication service (main.py, security.py) as a state machine.*)
(*                                                                         *)
(* The server is one asyncio event loop: the code between two awaits runs  *)
(* atomically, so every action below is one such segment of a handler or   *)
(* of the background job, and the result of the awaited call (an SSH       *)
(* command, an HTTP lookup) is the input of the segment that follows it.   *)
(***************************************************************************)
EXTENDS Integers, Sequences, FiniteSets, TLC

VARIABLES
    now,            \* time.time(), in seconds
    ticks,          \* number of clock advances so far (bounds the run)
    AUTH_NONCES,    \* main.py AUTH_NONCES: address -> [nonce, created_at]
    AUTH_SESSIONS,  \* main.py AUTH_SESSIONS: token -> [address, created_at, expires_at]
    requests,       \* security.py RateLimiter.requests: key -> list of timestamps
    admitted,       \* history: key -> times of all the requests the limiter admitted
    ETH_ACCOUNT_AVAILABLE,  \* main.py: whether eth_account could be imported
    issued,         \* number of session tokens generated so far
    reqs,           \* number of nonce and verify requests handled so far (bounds the run)
    deployments,    \* DeploymentTracker.deployments, an insertion-ordered dict
    disk,           \* the file at DeploymentTracker.storage_path
    proc,           \* "up", "saving" (inside _save, file opened for writing), "down"
    durable,        \* history: ids held by the last complete snapshot and not removed since
    DEPLOY_JOBS,    \* main.py DEPLOY_JOBS: deployment id -> index of its job dict in jobs
    jobs,           \* the job dicts, in order of creation
    tasks,          \* the background tasks (_run_deploy_job coroutines), in order of creation
    inflight,       \* lifecycle requests suspended at an await
    resp,           \* the last HTTP response (or return value) produced
    consumed,       \* history: address -> nonces consumed since the last nonce request
    disclosures     \* history: job index -> number of poll responses that held its passwords

authVars  == <<AUTH_NONCES, AUTH_SESSIONS, requests, admitted, ETH_ACCOUNT_AVAILABLE, issued,
               reqs, consumed>>
sessionVars == <<AUTH_NONCES, AUTH_SESSIONS, requests, admitted, ETH_ACCOUNT_AVAILABLE,
                 issued,
                 consumed>>
storeVars == <<deployments, disk, proc, durable>>
jobVars   == <<DEPLOY_JOBS, jobs, tasks, inflight, disclosures>>
vars == <<now, ticks, authVars, storeVars, jobVars, resp>>

(***************************************************************************)
(* Bounds of the model.                                                    *)
(***************************************************************************)
MaxTicks == 1          \* clock advances in one run
MaxDeploys == 2        \* accepted POST /api/deploy/ssh requests in one run
MaxInflight == 1       \* lifecycle requests suspended at the same time
MaxLongTicks == 1      \* clock advances by an expiry window in one run
MaxAuthRequests == 3   \* nonce and verify requests in one run
MaxRequests == 3       \* requests to the deployments API in one run
MaxDisclosures == 2    \* poll responses counted per job

(***************************************************************************)
(* Python values.  None and a missing dict key are distinct from every     *)
(* string the program handles.                                             *)
(***************************************************************************)
NONE == "<None>"
ABSENT == "<absent>"

\* datetime.utcnow().isoformat(): a string that carries the wall clock
isoformat(t) == [iso |-> t]

(***************************************************************************)
(* DeploymentTracker (ssh_executor.py).  self.deployments is a dict keyed  *)
(* by deployment id whose values carry the same id, in insertion order:    *)
(* a sequence of records with distinct ids.                                *)
(***************************************************************************)
Ids(d) == {d[i].id : i \in 1..Len(d)}

IndexOf(d, id) == CHOOSE i \in 1..Len(d) : d[i].id = id

\* dict.__setitem__: an existing key keeps its place, a new key goes last
DictSet(d, rec) ==
    IF rec.id \in Ids(d)
    THEN [d EXCEPT ![IndexOf(d, rec.id)] = rec]
    ELSE Append(d, rec)

\* del dict[key]
DictDel(d, id) ==
    LET i == IndexOf(d, id)
    IN  SubSeq(d, 1, i - 1) \o SubSeq(d, i + 1, Len(d))

NoRecord == [id |-> ABSENT]

\* DeploymentTracker.get_deployment
get_deployment(d, id) ==
    IF id \in Ids(d) THEN d[IndexOf(d, id)] ELSE NoRecord

\* str.lower() on the addresses and hosts of the model
Lower(s) ==
    CASE s = "0xAAAAAAAA01" -> "0xaaaaaaaa01"
      [] s = "LOCALHOST" -> "localhost"
      [] OTHER -> s

\* get_deployments_by_address that returns every record
get_deployments_by_address_All(d, address) == d

\* DeploymentTracker.get_deployments_by_address
get_deployments_by_address(d, address) ==
    SelectSeq(d, LAMBDA r : r.address = Lower(address))

\* DeploymentTracker.get_all_deployments
get_all_deployments(d) == d

\* the dict built by add_deployment
NewDeployment(deployment_id, address, app_id, app_name, ssh_host, ssh_port, status, t) ==
    [id |-> deployment_id,
     address |-> Lower(address),
     app_id |-> app_id,
     app_name |-> app_name,
     ssh_host |-> ssh_host,
     ssh_port |-> ssh_port,
     status |-> status,
     created_at |-> isoformat(t),
     updated_at |-> isoformat(t),
     public_url |-> NONE,
     error |-> ABSENT,
     instance_hash |-> ABSENT,
     containers |-> {}]

\* add_deployment, the in-memory part
add_deployment(d, deployment_id, address, app_id, app_name, ssh_host, ssh_port, status, t) ==
    DictSet(d, NewDeployment(deployment_id, address, app_id, app_name,
                             ssh_host, ssh_port, status, t))

\* dict.update that leaves the record as it was
Merge_Keep(rec, updates) == rec

\* dict.update(updates): updates is a function from some field names to values
Merge(rec, updates) ==
    [k \in DOMAIN rec |-> IF k \in DOMAIN updates THEN updates[k] ELSE rec[k]]

\* update_deployment, the in-memory part; an unknown id changes nothing
update_deployment(d, deployment_id, updates, t) ==
    IF deployment_id \notin Ids(d)
    THEN d
    ELSE DictSet(d, [Merge(get_deployment(d, deployment_id), updates)
                        EXCEPT !.updated_at = isoformat(t)])

\* remove_deployment, the in-memory part
remove_deployment(d, deployment_id) ==
    IF deployment_id \in Ids(d) THEN DictDel(d, deployment_id) ELSE d

(***************************************************************************)
(* The snapshot file.  json.dump writes the object as text; a record is    *)
(* written as a JSON object holding the keys that are present, each value  *)
(* by its type.  The file is a record: whether the path exists, the        *)
(* entries written so far, and whether the closing brace has been written. *)
(***************************************************************************)
StringKeys == {"id", "address", "app_id", "app_name", "ssh_host", "status",
               "public_url", "error", "instance_hash"}

\* key in dict: a list-valued key is held as a set of at most one list
IsPresent(rec, k) ==
    IF k = "containers" THEN rec[k] # {}
    ELSE IF k \in StringKeys THEN rec[k] # ABSENT
    ELSE TRUE

\* json.dumps of one value
JsonValue(k, v) ==
    IF k = "containers" THEN [t |-> "array", items |-> CHOOSE c \in v : TRUE]
    ELSE IF k = "ssh_port" THEN [t |-> "number", n |-> v]
    ELSE IF k \in StringKeys /\ v = NONE THEN [t |-> "null"]
    ELSE [t |-> "string", s |-> v]

\* a dump that leaves out the keys whose value is None
JsonObject_SkipNone(rec) ==
    [k \in {f \in DOMAIN rec : IsPresent(rec, f) /\ (f \in StringKeys => rec[f] # NONE)}
        |-> JsonValue(k, rec[k])]

\* json.dumps of one deployment record
JsonObject(rec) ==
    [k \in {f \in DOMAIN rec : IsPresent(rec, f)} |-> JsonValue(k, rec[k])]

\* json.loads of one value
PyValue(k, j) ==
    CASE j.t = "array" -> {j.items}
      [] j.t = "number" -> j.n
      [] j.t = "null" -> NONE
      [] j.t = "string" -> j.s

RecordKeys == DOMAIN NewDeployment("", "", "", "", "", 0, "", 0)

\* json.loads of one deployment record
PyRecord(obj) ==
    [k \in RecordKeys |->
        IF k \in DOMAIN obj THEN PyValue(k, obj[k])
        ELSE IF k = "containers" THEN {} ELSE ABSENT]

NoFile == [exists |-> FALSE, entries |-> <<>>, closed |-> FALSE]

\* open(path, 'w'): the file exists and is empty
Truncated == [exists |-> TRUE, entries |-> <<>>, closed |-> FALSE]

\* the file once json.dump has returned and the file is closed
SavedFile(d) ==
    [exists |-> TRUE,
     entries |-> [i \in 1..Len(d) |-> [key |-> d[i].id, value |-> JsonObject(d[i])]],
     closed |-> TRUE]

\* the file when the process dies after writing the first n entries
PartialFile(d, n) ==
    [exists |-> TRUE,
     entries |-> SubSeq(SavedFile(d).entries, 1, n),
     closed |-> FALSE]

\* DeploymentTracker._load: a missing or malformed file gives an empty dict
_load(file) ==
    IF file.exists /\ file.closed
    THEN [i \in 1..Len(file.entries) |-> PyRecord(file.entries[i].value)]
    ELSE <<>>

(***************************************************************************)
(* Inputs of the model.                                                    *)
(***************************************************************************)
AddrA == "0xaaaaaaaa01"
AddrAMixed == "0xAAAAAAAA01"    \* the same wallet, written in mixed case
AddrB == "0xbbbbbbbb02"
AddrC == "0xaaaaaacc03"     \* another wallet with the first 8 characters of AddrA
Addresses == {AddrA, AddrB}

\* what docker compose ps reports: one State per container
ContainerLists == {<<"running">>, <<"running", "exited">>}

(***************************************************************************)
(* The tracker used directly (SpecStore): every write is the in-memory     *)
(* change followed by _save, which opens the snapshot for writing          *)
(* (truncating it) and then dumps the dict.  The process can die in        *)
(* between; a fresh process starts from _load.                             *)
(***************************************************************************)
StoreIds == {"d1", "d2"}

\* the calls of add_deployment: an id and the owner's address as submitted
StoreAdds == {<<"d1", AddrAMixed>>, <<"d2", AddrB>>}

\* the shapes of the update_deployment calls of main.py
StoreUpdates ==
    {[status |-> "running", containers |-> {<<"running">>}],
     [status |-> "failed", error |-> "Docker deployment failed"],
     [public_url |-> "https://tenant-7.2n6.me"]}

StoreAdd(id, address) ==
    /\ proc = "up"
    /\ deployments' = add_deployment(deployments, id, address, "nginx-demo", "Nginx",
                                     "203.0.113.5", 22, "deploying", now)
    /\ disk' = Truncated
    /\ proc' = "saving"
    /\ resp' = [op |-> "add", id |-> id, ok |-> TRUE]
    /\ UNCHANGED <<now, ticks, authVars, durable, jobVars>>

StoreUpdate(id, updates) ==
    /\ proc = "up"
    /\ deployments' = update_deployment(deployments, id, updates, now)
    /\ IF id \in Ids(deployments)
       THEN disk' = Truncated /\ proc' = "saving"
       ELSE UNCHANGED <<disk, proc>>
    /\ resp' = [op |-> "update", id |-> id, ok |-> id \in Ids(deployments)]
    /\ UNCHANGED <<now, ticks, authVars, durable, jobVars>>

StoreRemove(id) ==
    /\ proc = "up"
    /\ deployments' = remove_deployment(deployments, id)
    /\ IF id \in Ids(deployments)
       THEN disk' = Truncated /\ proc' = "saving"
       ELSE UNCHANGED <<disk, proc>>
    /\ durable' = durable \ {id}
    /\ resp' = [op |-> "remove", id |-> id, ok |-> id \in Ids(deployments)]
    /\ UNCHANGED <<now, ticks, authVars, jobVars>>

\* json.dump returns and the file is closed
SaveComplete ==
    /\ proc = "saving"
    /\ disk' = SavedFile(deployments)
    /\ proc' = "up"
    /\ durable' = Ids(deployments)
    /\ UNCHANGED <<now, ticks, authVars, deployments, jobVars, resp>>

\* the process dies; inside _save the file keeps what was written so far
Crash ==
    /\ proc \in {"up", "saving"}
    /\ IF proc = "saving"
       THEN \E n \in 0..Len(deployments) : disk' = PartialFile(deployments, n)
       ELSE UNCHANGED disk
    /\ proc' = "down"
    /\ deployments' = <<>>
    /\ resp' = [op |-> "crash", id |-> ABSENT, ok |-> TRUE]
    /\ UNCHANGED <<now, ticks, authVars, durable, jobVars>>

\* DeploymentTracker.__init__ in a fresh process
Restart ==
    /\ proc = "down"
    /\ deployments' = _load(disk)
    /\ proc' = "up"
    /\ resp' = [op |-> "restart", id |-> ABSENT, ok |-> TRUE]
    /\ UNCHANGED <<now, ticks, authVars, disk, durable, jobVars>>

\* one second passes
TickSecond ==
    /\ ticks < MaxTicks
    /\ now' = now + 1
    /\ ticks' = ticks + 1
    /\ UNCHANGED <<authVars, storeVars, jobVars, resp>>


(***************************************************************************)
(* Authentication service (main.py) and its helpers (security.py).         *)
(***************************************************************************)
SESSION_EXPIRY_SECONDS == 86400
NONCE_EXPIRY_SECONDS == 300
NonceRateMax == 20
VerifyRateMax == 10
RateWindow == 60

\* dict restricted to some of its keys
Restrict(f, S) == [x \in S |-> f[x]]

\* RateLimiter.get_client_key, for the one client of the model
NonceKey == "nonce:198.51.100.7"
VerifyKey == "verify:198.51.100.7"
RateKeys == {NonceKey, VerifyKey}

\* RateLimiter.check, the entries of the key that are still inside the window
RateRecent(reqmap, key, window, t) ==
    SelectSeq(reqmap[key], LAMBDA x : t - x < window)

\* a RateLimiter.check that admits every request
RateAllowed_Always(reqmap, key, max_requests, window, t) == TRUE

\* RateLimiter.check: whether the request is admitted (else HTTP 429)
RateAllowed(reqmap, key, max_requests, window, t) ==
    ~(Len(RateRecent(reqmap, key, window, t)) >= max_requests)

\* RateLimiter.check: the request lists it leaves behind
RateAfter(reqmap, key, max_requests, window, t) ==
    [reqmap EXCEPT ![key] =
        IF RateAllowed(reqmap, key, max_requests, window, t)
        THEN Append(RateRecent(reqmap, key, window, t), t)
        ELSE RateRecent(reqmap, key, window, t)]

\* a cleanup that already drops a nonce at the age of NONCE_EXPIRY_SECONDS
cleanup_expired_nonces_Eager(nonces, t) ==
    Restrict(nonces, {a \in DOMAIN nonces :
                         t - nonces[a].created_at < NONCE_EXPIRY_SECONDS})

\* cleanup_expired_nonces
cleanup_expired_nonces(nonces, t) ==
    Restrict(nonces, {a \in DOMAIN nonces :
                         ~(t - nonces[a].created_at > NONCE_EXPIRY_SECONDS)})

\* cleanup_expired_sessions
cleanup_expired_sessions(sessions, t) ==
    Restrict(sessions, {k \in DOMAIN sessions : ~(t > sessions[k].expires_at)})

\* get_session_from_token: the session map it leaves behind
SessionsAfterLookup(sessions, token, t) ==
    LET cleaned == cleanup_expired_sessions(sessions, t)
    IN  IF token \in DOMAIN cleaned /\ t > cleaned[token].expires_at
        THEN Restrict(cleaned, DOMAIN cleaned \ {token})
        ELSE cleaned

NoSession == [address |-> NONE]

\* get_session_from_token: the session, or None
get_session_from_token(sessions, token, t) ==
    LET cleaned == cleanup_expired_sessions(sessions, t)
    IN  IF token \notin DOMAIN cleaned THEN NoSession
        ELSE IF t > cleaned[token].expires_at THEN NoSession
        ELSE cleaned[token]

\* the addresses that match ^0x[a-fA-F0-9]{40}$
WellFormedAddresses == {AddrA, AddrAMixed, AddrB}
MalformedAddress == "0x12"

\* validate_eth_address: whether it raises 400
AddressRejected(address) == address = "" \/ address \notin WellFormedAddresses

\* validate_eth_address: the normalized address
validate_eth_address(address) == Lower(address)

\* the message the wallet is asked to sign
AuthMessage(nonce, address) == [nonce |-> nonce, address |-> address]

\* a signature: the wallet that made it and the message it signed
Signature(signer, message) == [signer |-> signer, message |-> message]

\* Account.recover_message: the signer when the message is the signed one, else
\* some address that belongs to nobody
NobodyAddress == "0xcccccccc03"
recover_message(message, signature) ==
    IF signature.message = message THEN signature.signer ELSE NobodyAddress

\* a verify_signature that goes on without eth_account
SignatureRefused_Never == FALSE

\* verify_signature: whether it raises 503 because eth_account is not installed
SignatureRefused == ~ETH_ACCOUNT_AVAILABLE

\* verify_signature that accepts whatever it is given
verify_signature_AcceptAll(address, message, signature) == TRUE

\* verify_signature, given that eth_account is available
verify_signature(address, message, signature) ==
    Lower(recover_message(message, signature)) = Lower(address)

Nonces == {"n1", "n2"}

\* generate_session_token: a token never issued before
generate_session_token(n) == n + 1

\* a store that keeps the nonce an address already has
StoreNonce_KeepFirst(nonces, address, nonce, t) ==
    [a \in DOMAIN nonces \cup {address} |->
        IF a \in DOMAIN nonces THEN nonces[a] ELSE [nonce |-> nonce, created_at |-> t]]

\* AUTH_NONCES[address] = {"nonce": nonce, "created_at": time.time()}
StoreNonce(nonces, address, nonce, t) ==
    [a \in DOMAIN nonces \cup {address} |->
        IF a = address THEN [nonce |-> nonce, created_at |-> t] ELSE nonces[a]]

\* POST /api/auth/nonce
get_auth_nonce(address_in, nonce) ==
    LET t == now
        allowed == RateAllowed(requests, NonceKey, NonceRateMax, RateWindow, t)
        cleaned == cleanup_expired_nonces(AUTH_NONCES, t)
        address == validate_eth_address(address_in)
    IN  /\ reqs < MaxAuthRequests
        /\ reqs' = reqs + 1
        /\ requests' = RateAfter(requests, NonceKey, NonceRateMax, RateWindow, t)
        /\ admitted' = IF allowed THEN [admitted EXCEPT ![NonceKey] = Append(@, t)]
                       ELSE admitted
        /\ IF ~allowed
           THEN /\ resp' = [op |-> "nonce", code |-> 429]
                /\ UNCHANGED <<AUTH_NONCES, consumed>>
           ELSE IF AddressRejected(address_in)
           THEN /\ resp' = [op |-> "nonce", code |-> 400]
                /\ AUTH_NONCES' = cleaned
                /\ UNCHANGED consumed
           ELSE /\ AUTH_NONCES' = StoreNonce(cleaned, address, nonce, t)
                /\ consumed' = [consumed EXCEPT ![address] = {}]
                /\ resp' = [op |-> "nonce", code |-> 200, nonce |-> nonce,
                            message |-> AuthMessage(nonce, address)]
        /\ UNCHANGED <<now, ticks, AUTH_SESSIONS, ETH_ACCOUNT_AVAILABLE, issued,
                       storeVars, jobVars>>

\* a verify that leaves the used nonce in place
ConsumeNonce_Keep(nonces, address) == nonces

\* verify_auth, "Remove used nonce": del AUTH_NONCES[address]
ConsumeNonce(nonces, address) == Restrict(nonces, DOMAIN nonces \ {address})

\* what a second time.time() returns when the first returned t: the clock may
\* have moved on between the two reads
LaterReads(t) == {t, t + 1}

\* POST /api/auth/verify.  expires_at is computed from one clock read and
\* created_at is a second clock read
verify_auth(address_in, nonce_in, signature) ==
    LET t == now
        allowed == RateAllowed(requests, VerifyKey, VerifyRateMax, RateWindow, t)
        cleaned == cleanup_expired_nonces(AUTH_NONCES, t)
        address == validate_eth_address(address_in)
        token == generate_session_token(issued)
        valid == /\ ~AddressRejected(address_in)
                 /\ verify_signature(address, AuthMessage(nonce_in, address), signature)
        Reject(code, detail, nonces) ==
            /\ resp' = [op |-> "verify", code |-> code, detail |-> detail,
                        address |-> address_in,
                        nonce |-> nonce_in, valid |-> valid,
                        signature |-> signature]
            /\ AUTH_NONCES' = nonces
            /\ UNCHANGED <<now, AUTH_SESSIONS, issued, consumed>>
    IN  /\ reqs < MaxAuthRequests
        /\ reqs' = reqs + 1
        /\ requests' = RateAfter(requests, VerifyKey, VerifyRateMax, RateWindow, t)
        /\ admitted' = IF allowed THEN [admitted EXCEPT ![VerifyKey] = Append(@, t)]
                       ELSE admitted
        /\ IF ~allowed
           THEN Reject(429, "Too many requests. Max 10 per 60 seconds.", AUTH_NONCES)
           ELSE IF AddressRejected(address_in)
           THEN Reject(400,
                  "Invalid Ethereum address format. Must be 0x followed by 40 hex characters.",
                  cleaned)
           ELSE IF address \notin DOMAIN cleaned
           THEN Reject(400, "No pending nonce for this address. Request a new nonce.",
                       cleaned)
           ELSE IF t - cleaned[address].created_at > NONCE_EXPIRY_SECONDS
                THEN Reject(400, "Nonce expired. Request a new nonce.",
                            Restrict(cleaned, DOMAIN cleaned \ {address}))
           ELSE IF cleaned[address].nonce # nonce_in
           THEN Reject(400, "Invalid nonce", cleaned)
           ELSE IF SignatureRefused
           THEN Reject(503,
                  "Authentication unavailable: eth_account library not installed",
                  cleaned)
           ELSE IF ~verify_signature(address, AuthMessage(nonce_in, address), signature)
                THEN Reject(401, "Invalid signature", cleaned)
           ELSE /\ AUTH_NONCES' = ConsumeNonce(cleaned, address)
                /\ \E later \in LaterReads(t) :
                      /\ now' = later
                      /\ AUTH_SESSIONS' =
                            [k \in DOMAIN AUTH_SESSIONS \cup {token} |->
                                IF k = token
                                THEN [address |-> address, created_at |-> later,
                                      expires_at |-> t + SESSION_EXPIRY_SECONDS]
                                ELSE AUTH_SESSIONS[k]]
                /\ issued' = issued + 1
                /\ consumed' = [consumed EXCEPT ![address] = @ \cup {nonce_in}]
                /\ resp' = [op |-> "verify", code |-> 200, detail |-> NONE,
                            address |-> address_in,
                            nonce |-> nonce_in, valid |-> valid,
                            signature |-> signature, token |-> token]
        /\ UNCHANGED <<ticks, ETH_ACCOUNT_AVAILABLE, storeVars, jobVars>>

\* the signatures a client submits with (address, nonce): the owner's signature over
\* the canonical message, another wallet's signature over it, and the owner's
\* signature over the message of the other nonce
SignaturesFor(address_in, nonce_in) ==
    LET address == Lower(address_in)
    IN  {Signature(address, AuthMessage(nonce_in, address)),
         Signature(CHOOSE b \in Addresses : b # address, AuthMessage(nonce_in, address)),
         Signature(address, AuthMessage(CHOOSE n \in Nonces : n # nonce_in, address))}

\* the clock comes to the end of the rate window, or passes an expiry window,
\* or passes it by one second
LongSteps == {RateWindow - 1, RateWindow,
              NONCE_EXPIRY_SECONDS, NONCE_EXPIRY_SECONDS + 1,
              SESSION_EXPIRY_SECONDS, SESSION_EXPIRY_SECONDS + 1}

TickLong(d) ==
    /\ ticks < MaxLongTicks
    /\ now' = now + d
    /\ ticks' = ticks + 1
    /\ UNCHANGED <<authVars, storeVars, jobVars, resp>>

(***************************************************************************)
(* Deployment orchestrator (main.py): inputs.                              *)
(***************************************************************************)
\* a compose document: the digits:digits pairs in its text, in order, and whether
\* it holds the placeholders __GENERATED_PASSWORD__ / __GENERATED_ROOT_PASSWORD__
Compose(pairs, password, root_password) ==
    [pairs |-> pairs, password |-> password, root_password |-> root_password]

\* the catalog loaded from templates/apps.json
APPS ==
    [a \in {"nginx-demo", "postgres", "no-compose"} |->
        IF a = "nginx-demo"
        THEN [id |-> a, name |-> "Nginx Demo",
              docker_compose |-> Compose(<< <<8080, 80>> >>, FALSE, FALSE)]
        ELSE IF a = "postgres"
        THEN [id |-> a, name |-> "PostgreSQL",
              docker_compose |-> Compose(<< <<5432, 5432>> >>, TRUE, FALSE)]
        ELSE [id |-> a, name |-> "No Compose"]]

\* app["docker_compose"] raises KeyError for a catalog entry without the key
HasCompose(app) == "docker_compose" \in DOMAIN app

\* str(KeyError('docker_compose'))
KeyErrorMessage == "'docker_compose'"

GoodHost == "1.2.3.4"
PrivateHost == "10.0.0.1"

\* what ipaddress.ip_address returns: an IPv4 address of four octets, an IPv6
\* address of eight 16-bit groups, or no address (it raises ValueError)
Ipv4(a, b, c, d) == [version |-> 4, parts |-> <<a, b, c, d>>]
Ipv6(groups) == [version |-> 6, parts |-> groups]
NotAnIp == [version |-> 0, parts |-> <<>>]

\* ipaddress.ip_address on the host texts of the model: only the canonical
\* dotted-quad and colon forms parse, every other text raises ValueError
ip_address(host) ==
    CASE host = "1.2.3.4" -> Ipv4(1, 2, 3, 4)
      [] host = "8.8.8.8" -> Ipv4(8, 8, 8, 8)
      [] host = "10.0.0.1" -> Ipv4(10, 0, 0, 1)
      [] host = "127.0.0.1" -> Ipv4(127, 0, 0, 1)
      [] host = "127.0.0.2" -> Ipv4(127, 0, 0, 2)
      [] host = "0.0.0.0" -> Ipv4(0, 0, 0, 0)
      [] host = "169.254.169.254" -> Ipv4(169, 254, 169, 254)
      [] host = "169.254.1.1" -> Ipv4(169, 254, 1, 1)
      [] host = "100.100.100.200" -> Ipv4(100, 100, 100, 200)
      [] host = "172.16.0.1" -> Ipv4(172, 16, 0, 1)
      [] host = "172.31.255.255" -> Ipv4(172, 31, 255, 255)
      [] host = "172.32.0.1" -> Ipv4(172, 32, 0, 1)
      [] host = "192.168.1.1" -> Ipv4(192, 168, 1, 1)
      [] host = "192.0.0.8" -> Ipv4(192, 0, 0, 8)
      [] host = "198.18.0.1" -> Ipv4(198, 18, 0, 1)
      [] host = "203.0.113.5" -> Ipv4(203, 0, 113, 5)
      [] host = "240.0.0.1" -> Ipv4(240, 0, 0, 1)
      [] host = "255.255.255.255" -> Ipv4(255, 255, 255, 255)
      [] host = "93.184.216.34" -> Ipv4(93, 184, 216, 34)
      [] host = "::1" -> Ipv6(<<0, 0, 0, 0, 0, 0, 0, 1>>)
      [] host = "fe80::1" -> Ipv6(<<65152, 0, 0, 0, 0, 0, 0, 1>>)
      [] host = "fc00::1" -> Ipv6(<<64512, 0, 0, 0, 0, 0, 0, 1>>)
      [] host = "2001:db8::1" -> Ipv6(<<8193, 3512, 0, 0, 0, 0, 0, 1>>)
      [] host = "2001:4860:4860::8888" -> Ipv6(<<8193, 18528, 18528, 0, 0, 0, 0, 34952>>)
      [] host = "::ffff:10.0.0.1" -> Ipv6(<<0, 0, 0, 0, 0, 65535, 2560, 1>>)
      [] OTHER -> NotAnIp

\* is_private that knows no private network
is_private4_Never(o) == FALSE

\* IPv4Address.is_private: membership of _private_networks
is_private4(o) ==
    \/ o[1] = 0
    \/ o[1] = 10
    \/ o[1] = 127
    \/ o[1] = 169 /\ o[2] = 254
    \/ o[1] = 172 /\ o[2] \in 16..31
    \/ o[1] = 192 /\ o[2] = 0 /\ o[3] = 0 /\ o[4] \in 0..7
    \/ o[1] = 192 /\ o[2] = 0 /\ o[3] = 0 /\ o[4] \in 170..171
    \/ o[1] = 192 /\ o[2] = 0 /\ o[3] = 2
    \/ o[1] = 192 /\ o[2] = 168
    \/ o[1] = 198 /\ o[2] \in 18..19
    \/ o[1] = 198 /\ o[2] = 51 /\ o[3] = 100
    \/ o[1] = 203 /\ o[2] = 0 /\ o[3] = 113
    \/ o[1] >= 240

\* IPv6Address.ipv4_mapped: the embedded IPv4 address of ::ffff:a.b.c.d
ipv4_mapped(g) ==
    IF \A i \in 1..5 : g[i] = 0 /\ g[6] = 65535
    THEN {<<g[7] \div 256, g[7] % 256, g[8] \div 256, g[8] % 256>>}
    ELSE {}

\* IPv6Address.is_private
is_private6(g) ==
    IF ipv4_mapped(g) # {}
    THEN \E o \in ipv4_mapped(g) : is_private4(o)
    ELSE \/ \A i \in 1..7 : g[i] = 0 /\ g[8] \in {0, 1}
         \/ g[1] = 256 /\ g[2] = 0 /\ g[3] = 0 /\ g[4] = 0
         \/ g[1] = 8193 /\ g[2] < 512
         \/ g[1] = 8193 /\ g[2] = 3512
         \/ g[1] \in 64512..65023
         \/ g[1] \in 65152..65215

\* is_private, is_loopback, is_link_local and is_reserved of an address
is_private(ip) == IF ip.version = 4 THEN is_private4(ip.parts) ELSE is_private6(ip.parts)
is_loopback(ip) ==
    IF ip.version = 4 THEN ip.parts[1] = 127
    ELSE ip.parts = <<0, 0, 0, 0, 0, 0, 0, 1>>
is_link_local(ip) ==
    IF ip.version = 4 THEN ip.parts[1] = 169 /\ ip.parts[2] = 254
    ELSE ip.parts[1] \in 65152..65215
is_reserved(ip) ==
    IF ip.version = 4 THEN ip.parts[1] >= 240
    ELSE \/ ip.parts[1] < 8192
         \/ ip.parts[1] \in 16384..64511
         \/ ip.parts[1] \in 65024..65151

\* ipaddress.ip_address(host) parses and the address is private, loopback,
\* link-local or reserved
IsInternalIp(host) ==
    LET ip == ip_address(host)
    IN  /\ ip # NotAnIp
        /\ is_private(ip) \/ is_loopback(ip) \/ is_link_local(ip) \/ is_reserved(ip)

\* os.environ.get("ALLOW_INTERNAL_SSH", "0") == "1"; unset by default
ALLOW_INTERNAL_SSH == FALSE

\* str.strip() on the host texts of the model
Strip(s) ==
    CASE s = " 10.0.0.1 " -> "10.0.0.1"
      [] s = " localhost" -> "localhost"
      [] OTHER -> s

localhost_patterns == {"localhost", "127.0.0.1", "::1", "0.0.0.0"}
blocked_hosts == {"169.254.169.254", "metadata.google.internal",
                  "100.100.100.200", "metadata.azure.com"}

\* validate_ssh_host under a value of the override flag: whether it raises
\* ValueError
HostRejectedWith(host_in, allow_internal) ==
    LET host == Strip(Lower(host_in))
    IN  IF host_in = "" THEN TRUE
        ELSE IF host \in localhost_patterns THEN ~allow_internal
        ELSE IF host \in blocked_hosts THEN TRUE
        ELSE IsInternalIp(host)

\* validate_ssh_host: whether it raises ValueError
HostRejected(host_in) == HostRejectedWith(host_in, ALLOW_INTERNAL_SSH)

\* validate_ssh_host: the normalized host
validate_ssh_host(host_in) == Strip(Lower(host_in))

\* validate_port that accepts every port
PortRejected_Never(port) == FALSE

\* validate_port: whether it raises ValueError
PortRejected(port) == port < 1 \/ port > 65535

\* the request bodies of POST /api/deploy/ssh
SSHDeployRequest(app_id, ssh_host, ssh_port, setup_tunnel, instance_hash) ==
    [app_id |-> app_id, ssh_host |-> ssh_host, ssh_port |-> ssh_port,
     ssh_user |-> "root", setup_tunnel |-> setup_tunnel, tunnel_port |-> {},
     instance_hash |-> instance_hash]

\* the Authorization header: absent, or a token
NoHeader == <<>>
Bearer(token) == <<token>>

\* the POST /api/deploy/ssh requests of the model, body and Authorization header:
\* wallet A (token 1) deploys nginx-demo behind a public URL, wallet B (token 2)
\* deploys postgres without one, and one request for each way of being rejected
DeployRequests ==
    {<<SSHDeployRequest("nginx-demo", GoodHost, 22, TRUE, "abc123"), Bearer(1)>>,
     <<SSHDeployRequest("postgres", GoodHost, 22, FALSE, NONE), Bearer(2)>>,
     <<SSHDeployRequest("nginx-demo", GoodHost, 22, TRUE, "abc123"), NoHeader>>,
     <<SSHDeployRequest("nginx-demo", GoodHost, 22, TRUE, "abc123"), Bearer(99)>>,
     <<SSHDeployRequest("no-such-app", GoodHost, 22, TRUE, "abc123"), Bearer(1)>>,
     <<SSHDeployRequest("nginx-demo", PrivateHost, 22, TRUE, "abc123"), Bearer(1)>>,
     <<SSHDeployRequest("nginx-demo", GoodHost, 0, TRUE, "abc123"), Bearer(1)>>}

\* address[:8]
Prefix8(address) ==
    CASE address = AddrA -> "0xaaaaaa"
      [] address = AddrB -> "0xbbbbbb"
      [] address = AddrC -> "0xaaaaaa"

\* f"{request.app_id}-{address[:8]}-{int(time.time())}"
DeploymentId(app_id, address, t) == <<app_id, Prefix8(address), t>>

\* get_host_port_from_compose
get_host_port_from_compose(compose) ==
    IF Len(compose.pairs) > 0 THEN compose.pairs[1][1] ELSE 80

\* the dict deploy_via_ssh puts in DEPLOY_JOBS
NewJob(request, app) ==
    [status |-> "running", step |-> "queued", ssh_host |-> request.ssh_host,
     ssh_port |-> request.ssh_port, app_name |-> app.name,
     error |-> ABSENT, containers |-> {}, generated_passwords |-> {},
     public_url |-> ABSENT, tunnel |-> ABSENT]

\* the coroutine object created by asyncio.create_task(_run_deploy_job(...)), with
\* the calls it has made so far
NewTask(deployment_id, request, validated_host, creator) ==
    [deployment_id |-> deployment_id, request |-> request, host |-> validated_host,
     creator |-> creator,
     pc |-> "created", job |-> 0, attempt |-> 0, connected |-> FALSE,
     subdomain |-> NONE, disturbed |-> FALSE, label |-> "queued", raised |-> NONE,
     deployed |-> NONE,
     probes |-> 0, composes |-> 0, lookups |-> 0, proxies |-> 0, revokes |-> 0,
     revoke_code |-> 0]

\* history: a request handler wrote or replaced the record of deployment_id
Disturb(ts, deployment_id) ==
    [k \in 1..Len(ts) |->
        IF ts[k].deployment_id = deployment_id THEN [ts[k] EXCEPT !.disturbed = TRUE]
        ELSE ts[k]]

\* tracker write as the handlers see it: the in-memory change and the _save after it
TrackerWrite(d) ==
    /\ deployments' = d
    /\ disk' = SavedFile(d)
    /\ durable' = Ids(d)
    /\ UNCHANGED proc

\* update_deployment as an upsert: an unknown identifier gets a fresh record
TrackerUpdate_Upsert(deployment_id, updates) ==
    LET known == IF deployment_id \in Ids(deployments) THEN deployments
                 ELSE add_deployment(deployments, deployment_id, NONE, NONE, NONE,
                                     NONE, 22, "deploying", now)
    IN  TrackerWrite(update_deployment(known, deployment_id, updates, now))

\* deployment_tracker.update_deployment(...) from a handler or the job
TrackerUpdate(deployment_id, updates) ==
    IF deployment_id \in Ids(deployments)
    THEN TrackerWrite(update_deployment(deployments, deployment_id, updates, now))
    ELSE UNCHANGED storeVars

\* the session of a request, or NoSession when the header is absent
SessionOf(authorization) ==
    IF authorization = NoHeader THEN NoSession
    ELSE get_session_from_token(AUTH_SESSIONS, authorization[1], now)

\* the session map after the handler's authentication
SessionsAfter(authorization) ==
    IF authorization = NoHeader THEN AUTH_SESSIONS
    ELSE SessionsAfterLookup(AUTH_SESSIONS, authorization[1], now)

\* the arrival of one request at the API
Arrives == reqs < MaxRequests /\ reqs' = reqs + 1

(***************************************************************************)
(* POST /api/deploy/ssh                                                    *)
(***************************************************************************)
deploy_via_ssh(request, authorization) ==
    LET session == SessionOf(authorization)
        address == session.address
        deployment_id == DeploymentId(request.app_id, address, now)
        app == APPS[request.app_id]
        added == add_deployment(deployments, deployment_id, address, request.app_id,
                                app.name, request.ssh_host, request.ssh_port,
                                "deploying", now)
        stored == IF request.instance_hash # NONE
                  THEN update_deployment(added, deployment_id,
                                         [instance_hash |-> request.instance_hash], now)
                  ELSE added
        Reject(code) ==
            /\ resp' = [op |-> "deploy", code |-> code,
                        authed |-> session # NoSession]
            /\ UNCHANGED <<storeVars, jobVars>>
    IN  /\ Arrives
        /\ Len(tasks) < MaxDeploys
        /\ AUTH_SESSIONS' = SessionsAfter(authorization)
        /\ IF session = NoSession THEN Reject(401)
           ELSE IF request.app_id \notin DOMAIN APPS THEN Reject(404)
           ELSE IF HostRejected(request.ssh_host) \/ PortRejected(request.ssh_port)
                THEN Reject(400)
           ELSE /\ TrackerWrite(stored)
                /\ jobs' = Append(jobs, NewJob(request, app))
                /\ DEPLOY_JOBS' =
                      [k \in DOMAIN DEPLOY_JOBS \cup {deployment_id} |->
                          IF k = deployment_id THEN Len(jobs) + 1 ELSE DEPLOY_JOBS[k]]
                /\ tasks' = Append(Disturb(tasks, deployment_id),
                                   NewTask(deployment_id, request,
                                           validate_ssh_host(request.ssh_host), address))
                /\ disclosures' = Append(disclosures, 0)
                /\ resp' = [op |-> "deploy", code |-> 200, authed |-> TRUE,
                            deployment_id |-> deployment_id, status |-> "started"]
                /\ UNCHANGED inflight
        /\ UNCHANGED <<now, ticks, AUTH_NONCES, requests, admitted, ETH_ACCOUNT_AVAILABLE,
                       issued, consumed>>

(***************************************************************************)
(* _run_deploy_job: the background task of one accepted request.  Task i   *)
(* is suspended at tasks[i].pc; each action is the code from one await to  *)
(* the next, its input the result of the awaited call.                     *)
(***************************************************************************)
ProbeAttempts == 12

\* f"Cannot SSH to {validated_host}:{request.ssh_port} after 12 attempts"
CannotSshMessage(host, port) ==
    IF host = GoodHost /\ port = 22
    THEN "Cannot SSH to 1.2.3.4:22 after 12 attempts"
    ELSE "Cannot SSH to <host>:<port> after 12 attempts"

\* f"https://{subdomain}.{domain}" in setup_caddy_proxy, domain = "2n6.me"
ProxyUrl(subdomain) ==
    IF subdomain = "tenant-7" THEN "https://tenant-7.2n6.me"
    ELSE "https://<subdomain>.2n6.me"

\* what deploy_compose returns for a compose document
DeployResults(compose) ==
    LET keys == (IF compose.password THEN {"password"} ELSE {})
                    \cup (IF compose.root_password THEN {"root_password"} ELSE {})
        passwords == IF keys # {} THEN {keys} ELSE {}
    IN  {[status |-> "running", containers |-> {<<"running">>},
          error |-> ABSENT, generated_passwords |-> passwords],
         [status |-> "failed", containers |-> {},
          error |-> "Failed to start containers", generated_passwords |-> passwords]}

\* what deploy_compose returns for a catalog entry
ComposeResults(app) ==
    IF HasCompose(app) THEN DeployResults(app.docker_compose) ELSE {}

\* what setup_caddy_proxy returns
ProxyResults(subdomain) ==
    {[status |-> "running", url |-> ProxyUrl(subdomain)],
     [status |-> "failed", url |-> ABSENT]}

\* what the gateway lookup returns
Subdomains == {NONE, "tenant-7"}

\* the first step of the task: job = DEPLOY_JOBS[deployment_id], job["step"] =
\* "connecting", first call of test_connection
\* JobStart that goes to deploy_compose without a probe
JobStart_SkipProbe(i) ==
    LET task == tasks[i]
        j == DEPLOY_JOBS[task.deployment_id]
    IN  /\ task.pc = "created"
        /\ HasCompose(APPS[task.request.app_id])
        /\ jobs' = [jobs EXCEPT ![j].step = "deploying"]
        /\ tasks' = [tasks EXCEPT ![i].pc = "deploy_compose", ![i].job = j,
                                  ![i].composes = @ + 1, ![i].label = "deploying"]
        /\ UNCHANGED <<now, ticks, authVars, storeVars, DEPLOY_JOBS, inflight,
                       disclosures, resp>>

JobStart(i) ==
    LET task == tasks[i]
        j == DEPLOY_JOBS[task.deployment_id]
    IN  /\ task.pc = "created"
        /\ jobs' = [jobs EXCEPT ![j].step = "connecting"]
        /\ tasks' = [tasks EXCEPT ![i].pc = "probing", ![i].job = j, ![i].probes = 1,
                                  ![i].label = "connecting"]
        /\ UNCHANGED <<now, ticks, authVars, storeVars, DEPLOY_JOBS, inflight,
                       disclosures, resp>>

\* test_connection returned False and attempts remain: sleep, then probe again.
\* A failed probe changes nothing but the loop counter, so the retries that fail
\* one after the other are taken in one step: n is the number of them.
JobProbeRetry(i, n) ==
    LET task == tasks[i]
    IN  /\ task.pc = "probing"
        /\ task.attempt < ProbeAttempts - 1
        /\ n \in 1..(ProbeAttempts - 1 - task.attempt)
        /\ tasks' = [tasks EXCEPT ![i].attempt = @ + n, ![i].probes = @ + n]
        /\ UNCHANGED <<now, ticks, authVars, storeVars, DEPLOY_JOBS, jobs, inflight,
                       disclosures, resp>>

\* JobConnectFailed without its tracker update
JobConnectFailed_NoStore(i) ==
    LET task == tasks[i]
        error == CannotSshMessage(task.host, task.request.ssh_port)
    IN  /\ task.pc = "probing"
        /\ ~(task.attempt < ProbeAttempts - 1)
        /\ jobs' = [jobs EXCEPT ![task.job].status = "failed", ![task.job].error = error]
        /\ tasks' = [tasks EXCEPT ![i].pc = "ended"]
        /\ UNCHANGED <<now, ticks, authVars, storeVars, DEPLOY_JOBS, inflight,
                       disclosures, resp>>

\* test_connection returned False on the last attempt
JobConnectFailed(i) ==
    LET task == tasks[i]
        error == CannotSshMessage(task.host, task.request.ssh_port)
    IN  /\ task.pc = "probing"
        /\ ~(task.attempt < ProbeAttempts - 1)
        /\ jobs' = [jobs EXCEPT ![task.job].status = "failed", ![task.job].error = error]
        /\ TrackerUpdate(task.deployment_id, [status |-> "failed", error |-> error])
        /\ tasks' = [tasks EXCEPT ![i].pc = "ended"]
        /\ UNCHANGED <<now, ticks, authVars, DEPLOY_JOBS, inflight, disclosures, resp>>

\* test_connection returned True: job["step"] = "deploying", call deploy_compose
JobConnected(i) ==
    LET task == tasks[i]
    IN  /\ task.pc = "probing"
        /\ HasCompose(APPS[task.request.app_id])
        /\ jobs' = [jobs EXCEPT ![task.job].step = "deploying"]
        /\ tasks' = [tasks EXCEPT ![i].pc = "deploy_compose", ![i].connected = TRUE,
                                  ![i].composes = @ + 1, ![i].label = "deploying"]
        /\ UNCHANGED <<now, ticks, authVars, storeVars, DEPLOY_JOBS, inflight,
                       disclosures, resp>>

\* JobRaised without its tracker update
JobRaised_NoStore(i) ==
    LET task == tasks[i]
    IN  /\ task.pc = "probing"
        /\ ~HasCompose(APPS[task.request.app_id])
        /\ jobs' = [jobs EXCEPT ![task.job].step = "deploying",
                                ![task.job].status = "failed",
                                ![task.job].error = KeyErrorMessage]
        /\ tasks' = [tasks EXCEPT ![i].pc = "ended", ![i].connected = TRUE,
                                  ![i].label = "deploying",
                                  ![i].raised = KeyErrorMessage]
        /\ UNCHANGED <<now, ticks, authVars, storeVars, DEPLOY_JOBS, inflight,
                       disclosures, resp>>

\* test_connection returned True, job["step"] = "deploying", and evaluating the
\* argument app["docker_compose"] raises KeyError: the handler at the job boundary
\* marks the Job and the record failed with str(e)
JobRaised(i) ==
    LET task == tasks[i]
    IN  /\ task.pc = "probing"
        /\ ~HasCompose(APPS[task.request.app_id])
        /\ jobs' = [jobs EXCEPT ![task.job].step = "deploying",
                                ![task.job].status = "failed",
                                ![task.job].error = KeyErrorMessage]
        /\ TrackerUpdate(task.deployment_id,
                         [status |-> "failed", error |-> KeyErrorMessage])
        /\ tasks' = [tasks EXCEPT ![i].pc = "ended", ![i].connected = TRUE,
                                  ![i].label = "deploying",
                                  ![i].raised = KeyErrorMessage]
        /\ UNCHANGED <<now, ticks, authVars, DEPLOY_JOBS, inflight, disclosures, resp>>

\* a clean-up that never issues the command
CleanupKey_Never(i, job, key_exists) ==
    /\ jobs' = [jobs EXCEPT ![tasks[i].job] =
                   [job EXCEPT !.status = "complete", !.step = "done"]]
    /\ tasks' = [tasks EXCEPT ![i].pc = "ended", ![i].label = "done",
                              ![i].deployed = "running"]

\* "Cleanup marketplace SSH key" up to its await, or, when the key file is missing,
\* through to the end of the job
CleanupKey(i, job, key_exists) ==
    IF key_exists
    THEN /\ jobs' = [jobs EXCEPT ![tasks[i].job] = job]
         /\ tasks' = [tasks EXCEPT ![i].pc = "revoke", ![i].revokes = @ + 1,
                                   ![i].deployed = "running"]
    ELSE /\ jobs' = [jobs EXCEPT ![tasks[i].job] =
                        [job EXCEPT !.status = "complete", !.step = "done"]]
         /\ tasks' = [tasks EXCEPT ![i].pc = "ended", ![i].label = "done",
                                   ![i].deployed = "running"]

\* JobDeployed whose failure branch leaves the Store record alone
JobDeployed_FailedNoStore(i, deploy_result, key_exists) ==
    LET task == tasks[i]
        job == jobs[task.job]
        error == IF deploy_result.error = ABSENT THEN "Docker deployment failed"
                 ELSE deploy_result.error
        containers == IF deploy_result.containers = {} THEN {<<>>}
                      ELSE deploy_result.containers
        running == [job EXCEPT !.containers = containers,
                               !.generated_passwords =
                                   IF deploy_result.generated_passwords # {}
                                   THEN deploy_result.generated_passwords ELSE @]
    IN  /\ task.pc = "deploy_compose"
        /\ deploy_result \in ComposeResults(APPS[task.request.app_id])
        /\ IF deploy_result.status # "running"
           THEN /\ jobs' = [jobs EXCEPT ![task.job].status = "failed",
                                        ![task.job].error = error]
                /\ UNCHANGED storeVars
                /\ tasks' = [tasks EXCEPT ![i].pc = "ended",
                                          ![i].deployed = deploy_result.status]
           ELSE /\ TrackerUpdate(task.deployment_id,
                                 [status |-> "running", containers |-> containers])
                /\ IF task.request.setup_tunnel
                   THEN /\ jobs' = [jobs EXCEPT ![task.job] =
                                       [running EXCEPT !.step = "tunnel"]]
                        /\ tasks' = [tasks EXCEPT ![i].pc = "lookup",
                                                  ![i].lookups = @ + 1,
                                                  ![i].label = "tunnel",
                                                  ![i].deployed = deploy_result.status]
                   ELSE CleanupKey(i, running, key_exists)
        /\ UNCHANGED <<now, ticks, authVars, DEPLOY_JOBS, inflight, disclosures, resp>>

\* deploy_compose returned
JobDeployed(i, deploy_result, key_exists) ==
    LET task == tasks[i]
        job == jobs[task.job]
        error == IF deploy_result.error = ABSENT THEN "Docker deployment failed"
                 ELSE deploy_result.error
        containers == IF deploy_result.containers = {} THEN {<<>>}
                      ELSE deploy_result.containers
        running == [job EXCEPT !.containers = containers,
                               !.generated_passwords =
                                   IF deploy_result.generated_passwords # {}
                                   THEN deploy_result.generated_passwords ELSE @]
    IN  /\ task.pc = "deploy_compose"
        /\ deploy_result \in ComposeResults(APPS[task.request.app_id])
        /\ IF deploy_result.status # "running"
           THEN /\ jobs' = [jobs EXCEPT ![task.job].status = "failed",
                                        ![task.job].error = error]
                /\ TrackerUpdate(task.deployment_id,
                                 [status |-> "failed", error |-> error])
                /\ tasks' = [tasks EXCEPT ![i].pc = "ended",
                                          ![i].deployed = deploy_result.status]
           ELSE /\ TrackerUpdate(task.deployment_id,
                                 [status |-> "running", containers |-> containers])
                /\ IF task.request.setup_tunnel
                   THEN /\ jobs' = [jobs EXCEPT ![task.job] =
                                       [running EXCEPT !.step = "tunnel"]]
                        /\ tasks' = [tasks EXCEPT ![i].pc = "lookup",
                                                  ![i].lookups = @ + 1,
                                                  ![i].label = "tunnel",
                                                  ![i].deployed = deploy_result.status]
                   ELSE CleanupKey(i, running, key_exists)
        /\ UNCHANGED <<now, ticks, authVars, DEPLOY_JOBS, inflight, disclosures, resp>>

\* JobLookedUp that sets up the proxy whatever the lookup returned
JobLookedUp_AlwaysProxy(i, subdomain, key_exists) ==
    LET task == tasks[i]
    IN  /\ task.pc = "lookup"
        /\ task.request.instance_hash = NONE => subdomain = NONE
        /\ key_exists \in BOOLEAN
        /\ tasks' = [tasks EXCEPT ![i].pc = "proxy", ![i].proxies = @ + 1,
                                  ![i].subdomain = subdomain]
        /\ UNCHANGED <<now, ticks, authVars, storeVars, DEPLOY_JOBS, jobs, inflight,
                       disclosures, resp>>

\* lookup_instance_subdomain returned
JobLookedUp(i, subdomain, key_exists) ==
    LET task == tasks[i]
        job == jobs[task.job]
    IN  /\ task.pc = "lookup"
        /\ task.request.instance_hash = NONE => subdomain = NONE
        /\ IF subdomain # NONE
           THEN /\ tasks' = [tasks EXCEPT ![i].pc = "proxy", ![i].proxies = @ + 1,
                                          ![i].subdomain = subdomain]
                /\ UNCHANGED jobs
           ELSE CleanupKey(i, [job EXCEPT !.tunnel = "skipped"], key_exists)
        /\ UNCHANGED <<now, ticks, authVars, storeVars, DEPLOY_JOBS, inflight,
                       disclosures, resp>>

\* setup_caddy_proxy returned
JobProxied(i, tunnel_result, key_exists) ==
    LET task == tasks[i]
        job == jobs[task.job]
    IN  /\ task.pc = "proxy"
        /\ tunnel_result \in ProxyResults(task.subdomain)
        /\ IF tunnel_result.url # ABSENT
           THEN /\ TrackerUpdate(task.deployment_id, [public_url |-> tunnel_result.url])
                /\ CleanupKey(i, [job EXCEPT !.public_url = tunnel_result.url,
                                             !.tunnel = tunnel_result.status],
                              key_exists)
           ELSE /\ UNCHANGED storeVars
                /\ CleanupKey(i, [job EXCEPT !.tunnel = tunnel_result.status],
                              key_exists)
        /\ UNCHANGED <<now, ticks, authVars, DEPLOY_JOBS, inflight, disclosures, resp>>

\* str(e) of the OSError that open(self.storage_path, 'w') raises
SaveErrorMessage ==
    "[Errno 13] Permission denied: '/tmp/marketplace_deployments.json'"

\* setup_caddy_proxy returned a url and update_deployment(public_url=...) raised in
\* _save: the record is already changed in memory, the handler at the job boundary
\* sets the Job to failed and calls update_deployment(status="failed", ...), whose
\* _save writes the file (resaved) or raises again and ends the task.  The key
\* clean-up and job["status"] = "complete" are skipped.
JobPublishRaised(i, resaved) ==
    LET task == tasks[i]
        id == task.deployment_id
        published == update_deployment(deployments, id,
                                       [public_url |-> ProxyUrl(task.subdomain)], now)
        failed == update_deployment(published, id,
                                    [status |-> "failed", error |-> SaveErrorMessage],
                                    now)
    IN  /\ task.pc = "proxy"
        /\ id \in Ids(deployments)
        /\ jobs' = [jobs EXCEPT ![task.job].status = "failed",
                                ![task.job].error = SaveErrorMessage]
        /\ deployments' = failed
        /\ disk' = IF resaved THEN SavedFile(failed) ELSE disk
        /\ durable' = IF resaved THEN Ids(failed) ELSE durable
        /\ tasks' = [tasks EXCEPT ![i].pc = "ended", ![i].raised = SaveErrorMessage]
        /\ UNCHANGED <<now, ticks, authVars, proc, DEPLOY_JOBS, inflight, disclosures,
                       resp>>

\* JobRevoked that issues the command again instead of finishing
JobRevoked_Stay(i, code) ==
    /\ tasks[i].pc = "revoke"
    /\ code \in {0, 1}
    /\ tasks' = [tasks EXCEPT ![i].revoke_code = code]
    /\ UNCHANGED <<now, ticks, authVars, storeVars, DEPLOY_JOBS, jobs, inflight,
                   disclosures, resp>>

\* the key-removal command returned (its result is not looked at)
JobRevoked(i, code) ==
    LET task == tasks[i]
    IN  /\ task.pc = "revoke"
        /\ jobs' = [jobs EXCEPT ![task.job].status = "complete",
                                ![task.job].step = "done"]
        /\ code \in {0, 1}
        /\ tasks' = [tasks EXCEPT ![i].pc = "ended", ![i].revoke_code = code,
                                  ![i].label = "done"]
        /\ UNCHANGED <<now, ticks, authVars, storeVars, DEPLOY_JOBS, inflight,
                       disclosures, resp>>

(***************************************************************************)
(* The request handlers of the deployments API.  A handler that awaits an  *)
(* SSH call is suspended in inflight between its segments.                 *)
(***************************************************************************)
UnknownId == <<"nginx-demo", "0xcccccc", 0>>

\* the identifiers a client may name
RequestIds == DOMAIN DEPLOY_JOBS \cup {UnknownId}

\* the handler's locals at its await; authed, caller and owner are history
Suspended(op, pc, deployment_id, authorization, deployment) ==
    [op |-> op, pc |-> pc, deployment_id |-> deployment_id,
     ssh_host |-> deployment.ssh_host, ssh_port |-> deployment.ssh_port,
     app_id |-> deployment.app_id,
     authed |-> SessionOf(authorization) # NoSession,
     caller |-> SessionOf(authorization).address,
     owner |-> deployment.address]

Remove(seq, k) == SubSeq(seq, 1, k - 1) \o SubSeq(seq, k + 1, Len(seq))

\* the response to a request on a deployment; authed, caller, owner and found are
\* history: what the request was, not what the client is sent
Answer(op, code, deployment_id, authorization, status) ==
    [op |-> op, code |-> code, deployment_id |-> deployment_id,
     authed |-> SessionOf(authorization) # NoSession,
     caller |-> SessionOf(authorization).address,
     found |-> deployment_id \in Ids(deployments),
     owner |-> IF deployment_id \in Ids(deployments)
               THEN get_deployment(deployments, deployment_id).address ELSE NONE,
     status |-> status]

\* the response of a handler that was suspended
AnswerSuspended(r, code, status) ==
    [op |-> r.op, code |-> code, deployment_id |-> r.deployment_id,
     authed |-> r.authed, caller |-> r.caller, found |-> TRUE, owner |-> r.owner,
     status |-> status]

\* GET /api/deploy/ssh/{deployment_id}
get_deploy_status(deployment_id) ==
    /\ Arrives
    /\ IF deployment_id \notin DOMAIN DEPLOY_JOBS
       THEN /\ resp' = [op |-> "poll", code |-> 404, deployment_id |-> deployment_id]
            /\ UNCHANGED disclosures
       ELSE LET j == DEPLOY_JOBS[deployment_id]
            IN  /\ resp' = [op |-> "poll", code |-> 200,
                            deployment_id |-> deployment_id, job |-> jobs[j]]
                /\ disclosures' =
                      [disclosures EXCEPT ![j] =
                          IF jobs[j].generated_passwords # {} /\ @ < MaxDisclosures
                          THEN @ + 1 ELSE @]
    /\ UNCHANGED <<now, ticks, sessionVars, storeVars, DEPLOY_JOBS, jobs, tasks,
                   inflight>>

\* GET /api/deployments/my
get_my_deployments(authorization) ==
    LET session == SessionOf(authorization)
    IN  /\ Arrives
        /\ AUTH_SESSIONS' = SessionsAfter(authorization)
        /\ resp' = IF session = NoSession
                   THEN [op |-> "my", code |-> 401, authed |-> FALSE, caller |-> NONE,
                         deployments |-> <<>>]
                   ELSE [op |-> "my", code |-> 200, authed |-> TRUE,
                         caller |-> session.address,
                         deployments |->
                             get_deployments_by_address(deployments, session.address)]
        /\ UNCHANGED <<now, ticks, AUTH_NONCES, requests, admitted, ETH_ACCOUNT_AVAILABLE,
                       issued, consumed, storeVars, jobVars>>

\* POST /api/notify-allocation: the POST to the compute node is made only for an
\* authenticated caller; notified is what the node answered
notify_crn_allocation(authorization, notified) ==
    LET session == SessionOf(authorization)
    IN  /\ Arrives
        /\ AUTH_SESSIONS' = SessionsAfter(authorization)
        /\ resp' = IF session = NoSession
                   THEN [op |-> "notify", code |-> 401, authed |-> FALSE,
                         status |-> NONE]
                   ELSE [op |-> "notify", code |-> 200, authed |-> TRUE,
                         status |-> IF notified THEN "notified" ELSE "failed"]
        /\ UNCHANGED <<now, ticks, AUTH_NONCES, requests, admitted, ETH_ACCOUNT_AVAILABLE,
                       issued, consumed, storeVars, jobVars>>

\* GET /api/deployments/{id}/status, up to await executor.test_connection()
StatusBeginWithin(limit, deployment_id, authorization) ==
    /\ Arrives
    /\ Len(inflight) < limit
    /\ IF deployment_id \notin Ids(deployments)
       THEN /\ resp' = Answer("status", 404, deployment_id, authorization, NONE)
            /\ UNCHANGED inflight
       ELSE /\ inflight' = Append(inflight,
                Suspended("status", "probe", deployment_id, authorization,
                          get_deployment(deployments, deployment_id)))
            /\ UNCHANGED resp
    /\ UNCHANGED <<now, ticks, sessionVars, storeVars, DEPLOY_JOBS, jobs, tasks,
                   disclosures>>

StatusBegin(deployment_id, authorization) ==
    StatusBeginWithin(MaxInflight, deployment_id, authorization)

\* test_connection returned
StatusProbed(k, ok) ==
    /\ k \in 1..Len(inflight)
    /\ inflight[k].op = "status" /\ inflight[k].pc = "probe"
    /\ IF ok
       THEN /\ inflight' = [inflight EXCEPT ![k].pc = "app_status"]
            /\ UNCHANGED resp
       ELSE /\ inflight' = Remove(inflight, k)
            /\ resp' = AnswerSuspended(inflight[k], 200, "unreachable")
    /\ UNCHANGED <<now, ticks, authVars, storeVars, DEPLOY_JOBS, jobs, tasks,
                   disclosures>>

\* what get_app_status returns
AppStatuses ==
    {[status |-> "running", containers |-> {<<"running">>}],
     [status |-> "not_found", containers |-> {}]}

\* get_app_status returned: update the tracker and answer
StatusChecked(k, status) ==
    /\ k \in 1..Len(inflight)
    /\ inflight[k].op = "status" /\ inflight[k].pc = "app_status"
    /\ TrackerUpdate(inflight[k].deployment_id,
                     [status |-> status.status,
                      containers |-> IF status.containers = {} THEN {<<>>}
                                     ELSE status.containers])
    /\ tasks' = IF inflight[k].deployment_id \in Ids(deployments)
                THEN Disturb(tasks, inflight[k].deployment_id) ELSE tasks
    /\ inflight' = Remove(inflight, k)
    /\ resp' = AnswerSuspended(inflight[k], 200, status.status)
    /\ UNCHANGED <<now, ticks, authVars, DEPLOY_JOBS, jobs, disclosures>>

\* stop_deployment and delete_deployment up to their await: authentication,
\* lookup, ownership check
\* LifecycleBegin without the comparison of the owner with the session address
LifecycleBegin_NoOwnerCheck(op, deployment_id, authorization) ==
    LET session == SessionOf(authorization)
        deployment == get_deployment(deployments, deployment_id)
    IN  /\ Arrives
        /\ Len(inflight) < MaxInflight
        /\ AUTH_SESSIONS' = SessionsAfter(authorization)
        /\ IF session = NoSession
           THEN /\ resp' = Answer(op, 401, deployment_id, authorization, NONE)
                /\ UNCHANGED inflight
           ELSE IF deployment_id \notin Ids(deployments)
           THEN /\ resp' = Answer(op, 404, deployment_id, authorization, NONE)
                /\ UNCHANGED inflight
           ELSE /\ inflight' = Append(inflight,
                    Suspended(op, "ssh", deployment_id, authorization, deployment))
                /\ UNCHANGED resp
        /\ UNCHANGED <<now, ticks, AUTH_NONCES, requests, admitted, ETH_ACCOUNT_AVAILABLE,
                       issued, consumed, storeVars, DEPLOY_JOBS, jobs, tasks,
                       disclosures>>

LifecycleBeginWithin(limit, op, deployment_id, authorization) ==
    LET session == SessionOf(authorization)
        deployment == get_deployment(deployments, deployment_id)
    IN  /\ Arrives
        /\ Len(inflight) < limit
        /\ AUTH_SESSIONS' = SessionsAfter(authorization)
        /\ IF session = NoSession
           THEN /\ resp' = Answer(op, 401, deployment_id, authorization, NONE)
                /\ UNCHANGED inflight
           ELSE IF deployment_id \notin Ids(deployments)
           THEN /\ resp' = Answer(op, 404, deployment_id, authorization, NONE)
                /\ UNCHANGED inflight
           ELSE IF deployment.address # Lower(session.address)
           THEN /\ resp' = Answer(op, 403, deployment_id, authorization, NONE)
                /\ UNCHANGED inflight
           ELSE /\ inflight' = Append(inflight,
                    Suspended(op, "ssh", deployment_id, authorization, deployment))
                /\ UNCHANGED resp
        /\ UNCHANGED <<now, ticks, AUTH_NONCES, requests, admitted, ETH_ACCOUNT_AVAILABLE,
                       issued, consumed, storeVars, DEPLOY_JOBS, jobs, tasks,
                       disclosures>>

LifecycleBegin(op, deployment_id, authorization) ==
    LifecycleBeginWithin(MaxInflight, op, deployment_id, authorization)

\* POST /api/deployments/{id}/stop, up to await executor.stop_app(...)
StopBegin(deployment_id, authorization) ==
    LifecycleBegin("stop", deployment_id, authorization)

\* stop_app returned: the record is marked stopped whatever the result
StopDone(k, stopped) ==
    /\ k \in 1..Len(inflight)
    /\ inflight[k].op = "stop"
    /\ TrackerUpdate(inflight[k].deployment_id, [status |-> "stopped"])
    /\ tasks' = IF inflight[k].deployment_id \in Ids(deployments)
                THEN Disturb(tasks, inflight[k].deployment_id) ELSE tasks
    /\ inflight' = Remove(inflight, k)
    /\ resp' = AnswerSuspended(inflight[k], 200,
                               IF stopped THEN "stopped" ELSE "failed")
    /\ UNCHANGED <<now, ticks, authVars, DEPLOY_JOBS, jobs, disclosures>>

\* DELETE /api/deployments/{id}, up to await executor.remove_app(...)
DeleteBegin(deployment_id, authorization) ==
    LifecycleBegin("delete", deployment_id, authorization)

\* remove_app returned: the record is removed whatever the result
DeleteDone(k, removed) ==
    /\ k \in 1..Len(inflight)
    /\ inflight[k].op = "delete"
    /\ IF inflight[k].deployment_id \in Ids(deployments)
       THEN TrackerWrite(remove_deployment(deployments, inflight[k].deployment_id))
       ELSE UNCHANGED storeVars
    /\ tasks' = IF inflight[k].deployment_id \in Ids(deployments)
                THEN Disturb(tasks, inflight[k].deployment_id) ELSE tasks
    /\ inflight' = Remove(inflight, k)
    /\ resp' = AnswerSuspended(inflight[k], 200,
                               IF removed THEN "removed" ELSE "failed")
    /\ UNCHANGED <<now, ticks, authVars, DEPLOY_JOBS, jobs, disclosures>>

(***************************************************************************)
(* The state after construction: empty maps, no snapshot file.             *)
(***************************************************************************)
Init ==
    /\ now = 0
    /\ ticks = 0
    /\ AUTH_NONCES = <<>>
    /\ AUTH_SESSIONS = <<>>
    /\ requests = [k \in RateKeys |-> <<>>]
    /\ admitted = requests
    /\ ETH_ACCOUNT_AVAILABLE = TRUE
    /\ issued = 0
    /\ reqs = 0
    /\ consumed = [a \in Addresses |-> {}]
    /\ disk = NoFile
    /\ deployments = _load(NoFile)
    /\ proc = "up"
    /\ durable = {}
    /\ DEPLOY_JOBS = <<>>
    /\ jobs = <<>>
    /\ tasks = <<>>
    /\ inflight = <<>>
    /\ disclosures = <<>>
    /\ resp = [op |-> "none"]

NextStore ==
    \/ \E c \in StoreAdds : StoreAdd(c[1], c[2])
    \/ \E id \in StoreIds, u \in StoreUpdates : StoreUpdate(id, u)
    \/ \E id \in StoreIds : StoreRemove(id)
    \/ SaveComplete
    \/ Crash
    \/ Restart
    \/ TickSecond

SpecStore == Init /\ [][NextStore]_vars

(***************************************************************************)
(* C8: a Store reloaded from the snapshot, after any sequence of completed *)
(* add/update/remove operations, answers get, list-by-owner and list-all   *)
(* as the Store in memory does.                                            *)
(***************************************************************************)
C8_ReloadReproducesStore ==
    proc = "up" =>
        /\ get_all_deployments(_load(disk)) = get_all_deployments(deployments)
        /\ \A id \in StoreIds :
              get_deployment(_load(disk), id) = get_deployment(deployments, id)
        /\ \A a \in Addresses :
              get_deployments_by_address(_load(disk), a)
                  = get_deployments_by_address(deployments, a)

\* two records written in the order d2, d1, one of them updated twice, all saved
C8_Witness ==
    /\ proc = "up"
    /\ Len(deployments) = 2
    /\ deployments[1].id = "d2"
    /\ deployments[2].status = "running"
    /\ deployments[2].containers # {}
    /\ deployments[2].public_url # NONE
    /\ Len(disk.entries) = 2

(***************************************************************************)
(* C9: the snapshot is replaced atomically, so a reload after a crash      *)
(* never loses a record that an earlier snapshot held and that was not     *)
(* removed since.                                                          *)
(***************************************************************************)
C9_NoRecordLostByCrash ==
    proc # "saving" => durable \subseteq Ids(_load(disk))

(***************************************************************************)
(* The orchestrator (Spec).  It starts from the state in which wallet A    *)
(* (token 1) and wallet B (token 2) have just logged in, each with one     *)
(* nonce request and one verify request from the same client.              *)
(***************************************************************************)
NewSession(address, t) ==
    [address |-> address, created_at |-> t, expires_at |-> t + SESSION_EXPIRY_SECONDS]

InitLoggedIn ==
    /\ now = 0
    /\ ticks = 0
    /\ AUTH_NONCES = <<>>
    /\ AUTH_SESSIONS = [k \in 1..2 |->
                           IF k = 1 THEN NewSession(AddrA, 0) ELSE NewSession(AddrB, 0)]
    /\ requests = [k \in RateKeys |-> <<0, 0>>]
    /\ admitted = requests
    /\ ETH_ACCOUNT_AVAILABLE = TRUE
    /\ issued = 2
    /\ reqs = 0
    /\ consumed = [a \in Addresses |-> {"n1"}]
    /\ disk = NoFile
    /\ deployments = _load(NoFile)
    /\ proc = "up"
    /\ durable = {}
    /\ DEPLOY_JOBS = <<>>
    /\ jobs = <<>>
    /\ tasks = <<>>
    /\ inflight = <<>>
    /\ disclosures = <<>>
    /\ resp = [op |-> "none"]

\* the Authorization headers of the model: none, A's token, B's token, and a token
\* that was never issued
Headers == {NoHeader, Bearer(1), Bearer(2), Bearer(99)}

\* the runs of failed probes: all the retries of the loop
FailedInARow == {ProbeAttempts - 1}

JobNext ==
    \E i \in 1..Len(tasks) :
        \/ JobStart(i)
        \/ \E n \in FailedInARow : JobProbeRetry(i, n)
        \/ JobConnectFailed(i)
        \/ JobConnected(i)
        \/ \E key_exists \in BOOLEAN :
              \/ \E r \in ComposeResults(APPS[tasks[i].request.app_id]) :
                    JobDeployed(i, r, key_exists)
              \/ \E sub \in Subdomains : JobLookedUp(i, sub, key_exists)
              \/ \E r \in ProxyResults(tasks[i].subdomain) : JobProxied(i, r, key_exists)
        \/ \E code \in {0, 1} : JobRevoked(i, code)

ApiNext ==
    \/ \E r \in DeployRequests : deploy_via_ssh(r[1], r[2])
    \/ \E id \in RequestIds : get_deploy_status(id)
    \/ \E h \in Headers : get_my_deployments(h)
    \/ \E h \in Headers, n \in BOOLEAN : notify_crn_allocation(h, n)
    \/ \E id \in RequestIds, h \in Headers : StatusBegin(id, h)
    \/ \E k \in 1..Len(inflight), ok \in BOOLEAN : StatusProbed(k, ok)
    \/ \E k \in 1..Len(inflight), st \in AppStatuses : StatusChecked(k, st)
    \/ \E id \in RequestIds, h \in Headers : StopBegin(id, h)
    \/ \E k \in 1..Len(inflight), ok \in BOOLEAN : StopDone(k, ok)
    \/ \E id \in RequestIds, h \in Headers : DeleteBegin(id, h)
    \/ \E k \in 1..Len(inflight), ok \in BOOLEAN : DeleteDone(k, ok)

Next == JobNext \/ ApiNext

Spec == InitLoggedIn /\ [][Next]_vars

\* C1: a deployment's owner is the address of the session that created it, and a
\* status, stop or delete request on it made with a valid session of another
\* address is answered 403: it never gets as far as its SSH call
C1_OnlyOwnerOperates ==
    /\ \A i \in 1..Len(tasks) :
          tasks[i].deployment_id \in Ids(deployments) =>
              get_deployment(deployments, tasks[i].deployment_id).address
                  = tasks[i].creator
    /\ \A k \in 1..Len(inflight) :
          inflight[k].caller # NONE => inflight[k].caller = inflight[k].owner
    /\ (resp.op \in {"status", "stop", "delete"} /\ resp.found
            /\ resp.caller # NONE /\ resp.caller # resp.owner)
          => resp.code = 403

\* the endpoints that require a bearer token
BearerOps == {"notify", "deploy", "my", "status", "stop", "delete"}

\* C2: a request to a bearer endpoint without a valid session is answered 401, and
\* no such request is ever waiting for an SSH call or about to write the Store
C2_NoSessionGets401 ==
    /\ (resp.op \in BearerOps /\ ~resp.authed) => resp.code = 401
    /\ \A k \in 1..Len(inflight) : inflight[k].authed

\* a step of a background job that moves it to its next await or to its end
IsJobStep ==
    /\ Len(tasks') = Len(tasks)
    /\ \E i \in 1..Len(tasks) : tasks'[i].pc # tasks[i].pc

\* C3: once the Store status of a deployment is complete, failed or stopped, no
\* step of a background job changes it
C3_TerminalStatusKept ==
    [][\A k \in 1..Len(deployments) :
          (/\ IsJobStep
           /\ deployments[k].status \in {"complete", "failed", "stopped"}
           /\ deployments[k].id \in Ids(deployments'))
          => get_deployment(deployments', deployments[k].id).status
                 = deployments[k].status]_vars

\* task i ran the happy path to its end, and no request touched its record: SSH
\* was reachable, deploy_compose reported running, the subdomain was resolved, the
\* proxy was installed and the key removal was run
HappyPath(i) ==
    /\ tasks[i].pc = "ended"
    /\ tasks[i].connected
    /\ tasks[i].composes = 1 /\ tasks[i].proxies = 1 /\ tasks[i].revokes = 1
    /\ ~tasks[i].disturbed
    /\ \A k \in 1..Len(tasks) : k # i => tasks[k].job # tasks[i].job
    /\ jobs[tasks[i].job].status = "complete"
    /\ jobs[tasks[i].job].public_url = ProxyUrl(tasks[i].subdomain)
    /\ tasks[i].deployment_id \in Ids(deployments)

\* C4: after the happy path the Store record of the deployment has status complete
\* and public_url https://<subdomain>.2n6.me
C4_HappyPathEndsComplete ==
    \A i \in 1..Len(tasks) :
        HappyPath(i) =>
            LET deployment == get_deployment(deployments, tasks[i].deployment_id)
            IN  /\ deployment.status = "complete"
                /\ deployment.public_url = ProxyUrl(tasks[i].subdomain)

\* C5: the generated passwords of a job appear in at most one response of
\* GET /api/deploy/ssh/{id}
C5_PasswordsInOnePoll ==
    \A j \in 1..Len(disclosures) : disclosures[j] <= 1

\* C7: at most one deploy_compose is in flight for a (host, port) pair
C7_OneComposePerHost ==
    \A i, k \in 1..Len(tasks) :
        (i # k /\ tasks[i].pc = "deploy_compose" /\ tasks[k].pc = "deploy_compose")
            => ~(/\ tasks[i].host = tasks[k].host
                 /\ tasks[i].request.ssh_port = tasks[k].request.ssh_port)

\* task i ran to its end as the only run on its deployment identifier, and no
\* request touched its record
RanAlone(i) ==
    /\ tasks[i].pc = "ended"
    /\ ~tasks[i].disturbed
    /\ \A k \in 1..Len(tasks) :
          k # i => tasks[k].deployment_id # tasks[i].deployment_id
    /\ tasks[i].deployment_id \in Ids(deployments)

\* C11: when a publish was requested, a subdomain was resolved and
\* setup_caddy_proxy returned a failed result, the Job and the Store record end
\* with status failed
C11_ProxyFailureFailsDeployment ==
    \A i \in 1..Len(tasks) :
        (RanAlone(i) /\ tasks[i].proxies = 1 /\ jobs[tasks[i].job].tunnel = "failed")
            => /\ jobs[tasks[i].job].status = "failed"
               /\ get_deployment(deployments, tasks[i].deployment_id).status = "failed"

\* task i asked the gateway and got no subdomain
LookupEmpty(i) ==
    /\ RanAlone(i)
    /\ tasks[i].request.setup_tunnel
    /\ tasks[i].lookups = 1
    /\ tasks[i].subdomain = NONE

\* what C12 says of a run whose lookup returned nothing, up to the final status
SkippedPublish(i) ==
    /\ jobs[tasks[i].job].tunnel = "skipped"
    /\ tasks[i].proxies = 0
    /\ jobs[tasks[i].job].public_url = ABSENT
    /\ get_deployment(deployments, tasks[i].deployment_id).public_url = NONE
    /\ jobs[tasks[i].job].status = "complete"
    /\ jobs[tasks[i].job].error = ABSENT

PcRank(pc) ==
    CASE pc = "created" -> 0
      [] pc = "probing" -> 1
      [] pc = "deploy_compose" -> 2
      [] pc = "lookup" -> 3
      [] pc = "proxy" -> 4
      [] pc = "revoke" -> 5
      [] pc = "ended" -> 6

\* order of the Job step labels
StepRank(step) ==
    CASE step = "queued" -> 0
      [] step = "connecting" -> 1
      [] step = "deploying" -> 2
      [] step = "tunnel" -> 3
      [] step = "done" -> 4

\* no other job writes to the Job object of task i
OwnJob(i) == \A k \in 1..Len(tasks) : k # i => tasks[k].job # tasks[i].job

\* what the phases of task i have done so far respects the order connect,
\* install, publish, revoke
PhasesInOrder(i) ==
    LET task == tasks[i]
    IN  /\ task.probes <= ProbeAttempts
        /\ task.composes <= 1 /\ task.lookups <= 1
        /\ task.proxies <= 1 /\ task.revokes <= 1
        /\ task.composes = 1 => task.probes >= 1 /\ task.connected
        /\ task.lookups = 1 =>
              /\ task.composes = 1 /\ task.deployed = "running"
              /\ task.request.setup_tunnel
        /\ task.proxies = 1 =>
              /\ task.lookups = 1 /\ task.deployed = "running"
              /\ task.subdomain # NONE
        /\ task.revokes = 1 =>
              /\ task.deployed = "running"
              /\ task.pc \in {"revoke", "ended"}
              /\ task.request.setup_tunnel => task.lookups = 1
        /\ task.label = "done" => task.pc = "ended" /\ task.deployed = "running"
        /\ (task.pc # "created" /\ OwnJob(i)) => jobs[task.job].step = task.label

\* C13: the phases of one job run in the order connect, install, publish, revoke,
\* complete: deploy_compose only after a successful probe, the proxy set-up only
\* after deploy_compose returned running, the key removal only after the publish
\* phase ended, and the step label the job writes only moves forward along
\* queued, connecting, deploying, tunnel, done
C13_PhasesInOrder ==
    /\ [](\A i \in 1..Len(tasks) : PhasesInOrder(i))
    /\ [][\A i \in 1..Len(tasks) :
            /\ PcRank(tasks'[i].pc) >= PcRank(tasks[i].pc)
            /\ StepRank(tasks'[i].label) >= StepRank(tasks[i].label)
            /\ OwnJob(i) /\ OwnJob(i)' /\ tasks[i].job # 0 =>
                  StepRank(jobs'[tasks[i].job].step) >= StepRank(jobs[tasks[i].job].step)
         ]_vars

C13_Witness ==
    \E i \in 1..Len(tasks) :
        /\ tasks[i].pc = "ended" /\ OwnJob(i)
        /\ tasks[i].probes > 1 /\ tasks[i].composes = 1 /\ tasks[i].lookups = 1
        /\ tasks[i].proxies = 1 /\ tasks[i].revokes = 1
        /\ jobs[tasks[i].job].step = "done"

\* the key-removal command of task i exited non-zero
RevokeFailed(i) ==
    /\ RanAlone(i) /\ tasks[i].revokes = 1 /\ tasks[i].revoke_code # 0

\* C14: a job whose key-removal command fails still completes, and the failure
\* is kept as a warning field on the deployment record
C14_RevokeFailureWarned ==
    \A i \in 1..Len(tasks) :
        RevokeFailed(i) =>
            /\ jobs[tasks[i].job].status = "complete"
            /\ "warning" \in DOMAIN get_deployment(deployments, tasks[i].deployment_id)

\* this step is the handler at the job boundary of task i catching an exception
Caught(i) == tasks[i].raised = NONE /\ tasks'[i].raised # NONE

NonOwnerRefusal ==
    /\ reqs' = reqs + 1
    /\ inflight' = inflight
    /\ resp'.op \in {"stop", "delete"}
    /\ resp'.authed /\ resp'.found
    /\ resp'.owner # Lower(resp'.caller)

\* C16: a stop or delete request made with a valid session of an address that is
\* not the owner is answered 403 and changes nothing: the record, the snapshot,
\* the Jobs and the job tasks stay as they were, and no such request ever waits
\* for a remote command
C16_NonOwnerChangesNothing ==
    /\ [](\A k \in 1..Len(inflight) :
            inflight[k].op \in {"stop", "delete"} =>
                /\ inflight[k].authed
                /\ inflight[k].owner = Lower(inflight[k].caller))
    /\ [][NonOwnerRefusal =>
            /\ resp'.code = 403
            /\ UNCHANGED <<storeVars, DEPLOY_JOBS, jobs, tasks>>
         ]_vars

C16_Witness ==
    /\ resp.op = "delete" /\ resp.code = 403
    /\ resp.caller = AddrB /\ resp.owner = AddrA
    /\ resp.deployment_id \in Ids(deployments)
    /\ get_deployment(deployments, resp.deployment_id).address = AddrA
    /\ get_deployment(deployments, resp.deployment_id).status = "running"

\* C17: the owner address of a deployment record never changes from its
\* creation until its removal, whatever deploys, job writes and lifecycle calls
\* are made by any users
C17_OwnerNeverChanges ==
    [][\A k \in 1..Len(deployments) :
          deployments[k].id \in Ids(deployments') =>
              get_deployment(deployments', deployments[k].id).address
                  = deployments[k].address
      ]_vars

\* the statuses of a deployment record
DeploymentStatuses == {"deploying", "running", "complete", "failed", "stopped"}

\* C18: every status held by a Store record, and by its snapshot entry, is one
\* of deploying, running, complete, failed, stopped, the writes of the live
\* status refresh included
C18_StatusInEnumeration ==
    \A k \in 1..Len(deployments) : deployments[k].status \in DeploymentStatuses

\* task i gave up after its last probe
GaveUp(i) == tasks[i].pc = "ended" /\ ~tasks[i].connected

\* C10: a job whose 12 probes all fail ends failed with the error 'Cannot SSH to
\* <host>:<port> after 12 attempts' in the Job and in the Store record, after exactly
\* 12 probes and without a deploy_compose, a lookup, a proxy set-up or a key removal
C10_GivesUpAfterTwelveProbes ==
    /\ [](\A i \in 1..Len(tasks) :
            GaveUp(i) =>
                /\ tasks[i].probes = 12
                /\ tasks[i].composes = 0 /\ tasks[i].lookups = 0
                /\ tasks[i].proxies = 0 /\ tasks[i].revokes = 0)
    /\ [][\A i \in 1..Len(tasks) :
            (tasks[i].pc = "probing" /\ Len(tasks') = Len(tasks) /\ GaveUp(i)')
            => LET error == CannotSshMessage(tasks[i].host, tasks[i].request.ssh_port)
                   id == tasks[i].deployment_id
               IN  /\ error = "Cannot SSH to 1.2.3.4:22 after 12 attempts"
                   /\ jobs'[tasks[i].job].status = "failed"
                   /\ jobs'[tasks[i].job].error = error
                   /\ id \in Ids(deployments) =>
                         /\ get_deployment(deployments', id).status = "failed"
                         /\ get_deployment(deployments', id).error = error]_vars

C10_Witness ==
    \E i \in 1..Len(tasks) :
        /\ GaveUp(i)
        /\ tasks[i].probes = 12
        /\ jobs[tasks[i].job].status = "failed"
        /\ jobs[tasks[i].job].error = "Cannot SSH to 1.2.3.4:22 after 12 attempts"
        /\ tasks[i].deployment_id \in Ids(deployments)
        /\ get_deployment(deployments, tasks[i].deployment_id).status = "failed"
        /\ get_deployment(deployments, tasks[i].deployment_id).error
               = "Cannot SSH to 1.2.3.4:22 after 12 attempts"

(***************************************************************************)
(* The background jobs on their own (SpecJobs): three wallets are logged   *)
(* in, A (token 1), B (token 2) and C (token 3), where C shares the first  *)
(* 8 characters of A's address; the catalog has an entry without a compose *)
(* document; clients deploy and the jobs run.                              *)
(***************************************************************************)
InitJobs ==
    /\ now = 0
    /\ ticks = 0
    /\ AUTH_NONCES = <<>>
    /\ AUTH_SESSIONS = [k \in 1..3 |->
                           IF k = 1 THEN NewSession(AddrA, 0)
                           ELSE IF k = 2 THEN NewSession(AddrB, 0)
                           ELSE NewSession(AddrC, 0)]
    /\ requests = [k \in RateKeys |-> <<0, 0, 0>>]
    /\ admitted = requests
    /\ ETH_ACCOUNT_AVAILABLE = TRUE
    /\ issued = 3
    /\ reqs = 0
    /\ consumed = [a \in Addresses |-> {"n1"}]
    /\ disk = NoFile
    /\ deployments = _load(NoFile)
    /\ proc = "up"
    /\ durable = {}
    /\ DEPLOY_JOBS = <<>>
    /\ jobs = <<>>
    /\ tasks = <<>>
    /\ inflight = <<>>
    /\ disclosures = <<>>
    /\ resp = [op |-> "none"]

\* the deploy requests of SpecJobs: A and C deploy nginx-demo behind a public URL,
\* B deploys the catalog entry that has no compose document
JobsDeployRequests ==
    {<<SSHDeployRequest("nginx-demo", GoodHost, 22, TRUE, "abc123"), Bearer(1)>>,
     <<SSHDeployRequest("nginx-demo", GoodHost, 22, TRUE, "abc123"), Bearer(3)>>,
     <<SSHDeployRequest("no-compose", GoodHost, 22, FALSE, NONE), Bearer(2)>>}

NextJobs ==
    \/ \E r \in JobsDeployRequests : deploy_via_ssh(r[1], r[2])
    \/ JobNext
    \/ \E i \in 1..Len(tasks) : JobRaised(i)

SpecJobs == InitJobs /\ [][NextJobs]_vars

\* GET /api/auth/session
get_session_info(authorization) ==
    LET session == SessionOf(authorization)
    IN  /\ reqs < MaxAuthRequests
        /\ reqs' = reqs + 1
        /\ AUTH_SESSIONS' = SessionsAfter(authorization)
        /\ resp' = IF session = NoSession
                   THEN [op |-> "session", code |-> 200,
                         authorization |-> authorization, address |-> "",
                         authenticated |-> FALSE, expires_at |-> {}]
                   ELSE [op |-> "session", code |-> 200,
                         authorization |-> authorization,
                         address |-> session.address, authenticated |-> TRUE,
                         expires_at |-> {session.expires_at}]
        /\ UNCHANGED <<now, ticks, AUTH_NONCES, requests, admitted, ETH_ACCOUNT_AVAILABLE,
                       issued, consumed, storeVars, jobVars>>

\* POST /api/auth/logout
logout(authorization) ==
    /\ reqs < MaxAuthRequests
    /\ reqs' = reqs + 1
    /\ AUTH_SESSIONS' =
          IF authorization # NoHeader /\ authorization[1] \in DOMAIN AUTH_SESSIONS
          THEN Restrict(AUTH_SESSIONS, DOMAIN AUTH_SESSIONS \ {authorization[1]})
          ELSE AUTH_SESSIONS
    /\ resp' = [op |-> "logout", code |-> 200, authorization |-> authorization,
                success |-> TRUE]
    /\ UNCHANGED <<now, ticks, AUTH_NONCES, requests, admitted, ETH_ACCOUNT_AVAILABLE,
                   issued, consumed, storeVars, jobVars>>

(***************************************************************************)
(* The authentication service on its own (SpecAuth).  It starts either     *)
(* right after construction or after the client has made VerifyRateMax - 1 *)
(* verify attempts in the current second that found no pending nonce       *)
(* (each answered 400, changing nothing but the rate limiter's list), or    *)
(* NonceRateMax - 1 nonce requests with a malformed address (likewise).    *)
(* The eth_account library is installed or not, for the whole run.         *)
(***************************************************************************)
InitAuth ==
    /\ now = 0
    /\ ticks = 0
    /\ AUTH_NONCES = <<>>
    /\ AUTH_SESSIONS = <<>>
    /\ requests \in {[k \in RateKeys |-> <<>>],
                      [k \in RateKeys |->
                          IF k = VerifyKey THEN [i \in 1..(VerifyRateMax - 1) |-> 0]
                          ELSE <<>>],
                      [k \in RateKeys |->
                          IF k = NonceKey THEN [i \in 1..(NonceRateMax - 1) |-> 0]
                          ELSE <<>>]}
    /\ admitted = requests
    /\ ETH_ACCOUNT_AVAILABLE \in BOOLEAN
    /\ issued = 0
    /\ reqs = 0
    /\ consumed = [a \in Addresses |-> {}]
    /\ disk = NoFile
    /\ deployments = _load(NoFile)
    /\ proc = "up"
    /\ durable = {}
    /\ DEPLOY_JOBS = <<>>
    /\ jobs = <<>>
    /\ tasks = <<>>
    /\ inflight = <<>>
    /\ disclosures = <<>>
    /\ resp = [op |-> "none"]

NextAuth ==
    \/ \E a \in {AddrAMixed, AddrB, MalformedAddress}, n \in Nonces : get_auth_nonce(a, n)
    \/ \E a \in {AddrAMixed, AddrB, MalformedAddress}, n \in Nonces :
          \E sig \in SignaturesFor(a, n) : verify_auth(a, n, sig)
    \/ \E d \in LongSteps : TickLong(d)
    \/ \E h \in Headers : get_session_info(h)
    \/ \E h \in Headers : logout(h)
    \/ \E h \in Headers : get_my_deployments(h)
    \/ \E h \in Headers : StatusBegin(UnknownId, h)

SpecAuth == InitAuth /\ [][NextAuth]_vars

\* this step is a verify request for an (address, nonce) that a successful verify
\* has consumed, with no nonce issued to the address since
IsReplayStep ==
    /\ reqs' = reqs + 1
    /\ resp'.op = "verify"
    /\ Lower(resp'.address) \in Addresses
    /\ resp'.nonce \in consumed[Lower(resp'.address)]

(***************************************************************************)
(* C6 as stated: after a successful verify of (address, nonce), every      *)
(* later verify with the same address and nonce is rejected with 400 and   *)
(* creates no session, unless a new nonce was requested in between.        *)
(***************************************************************************)
C6_ReplayGets400 ==
    [][IsReplayStep => (resp'.code = 400 /\ AUTH_SESSIONS' = AUTH_SESSIONS)]_vars

(***************************************************************************)
(* C6 as amended: such a replay is rejected, with 400 or, when the client  *)
(* is over the verify rate limit, with 429, and creates no session.        *)
(***************************************************************************)
C6_ReplayRejected ==
    [][IsReplayStep => (resp'.code \in {400, 429} /\ AUTH_SESSIONS' = AUTH_SESSIONS
                        /\ issued' = issued)]_vars

\* a replay with a valid signature has been answered 400 after one session was issued
C6_Witness ==
    /\ resp.op = "verify"
    /\ resp.code = 400
    /\ resp.valid
    /\ Lower(resp.address) \in Addresses
    /\ resp.nonce \in consumed[Lower(resp.address)]
    /\ issued = 1
    /\ Cardinality(DOMAIN AUTH_SESSIONS) = 1

\* C19: every session created by a successful verify has
\* expires_at - created_at = SESSION_EXPIRY_SECONDS (86400) exactly
C19_SessionLifetimeExact ==
    \A k \in DOMAIN AUTH_SESSIONS :
        AUTH_SESSIONS[k].expires_at - AUTH_SESSIONS[k].created_at
            = SESSION_EXPIRY_SECONDS

\* the token is in the session map and the current time is not past its expires_at
SessionLive(token) ==
    /\ token \in DOMAIN AUTH_SESSIONS
    /\ ~(now > AUTH_SESSIONS[token].expires_at)

\* the request carries a token whose session is live
HeaderLive(authorization) ==
    authorization # NoHeader /\ SessionLive(authorization[1])

\* C20: GET /api/auth/session answers authenticated, with the address and
\* expires_at of the session, exactly when the token is in the session map and
\* the time is not past its expires_at; logout always succeeds, removes the
\* token and leaves the other sessions alone; a token that is logged out or
\* expired is never live again; the deployment list is answered 200 only to the
\* address of a live session; and once every issued token is logged out or
\* expired, every request to a bearer endpoint is answered 401
C20_SessionLiveUntilLogoutOrExpiry ==
    /\ [][(reqs' = reqs + 1 /\ resp'.op = "session") =>
            LET h == resp'.authorization
            IN  /\ resp'.authenticated = HeaderLive(h)
                /\ HeaderLive(h) =>
                      /\ resp'.address = AUTH_SESSIONS[h[1]].address
                      /\ resp'.expires_at = {AUTH_SESSIONS[h[1]].expires_at}
                /\ ~HeaderLive(h) => resp'.address = ""
         ]_vars
    /\ [][(reqs' = reqs + 1 /\ resp'.op = "logout") =>
            LET h == resp'.authorization
                gone == IF h = NoHeader THEN {} ELSE {h[1]}
            IN  /\ resp'.code = 200 /\ resp'.success
                /\ DOMAIN AUTH_SESSIONS' = DOMAIN AUTH_SESSIONS \ gone
                /\ \A k \in DOMAIN AUTH_SESSIONS' :
                      AUTH_SESSIONS'[k] = AUTH_SESSIONS[k]
         ]_vars
    /\ [][\A token \in 1..issued : ~SessionLive(token) => ~SessionLive(token)']_vars
    /\ [][(reqs' = reqs + 1 /\ resp'.op = "my") =>
            \/ resp'.code = 401
            \/ /\ resp'.code = 200
               /\ \E token \in DOMAIN AUTH_SESSIONS :
                     /\ SessionLive(token)
                     /\ AUTH_SESSIONS[token].address = resp'.caller
         ]_vars
    /\ [][(/\ reqs' = reqs + 1
           /\ resp'.op \in BearerOps
           /\ issued > 0
           /\ \A token \in 1..issued : ~SessionLive(token))
          => resp'.code = 401
         ]_vars

\* this step answers a POST /api/auth/verify
IsVerifyStep == reqs' = reqs + 1 /\ resp'.op = "verify"

\* C21: a verify creates a session only if a nonce is stored for the address,
\* the stored nonce equals the submitted one, the stored nonce is not older
\* than NONCE_EXPIRY_SECONDS (300 s) and the signature recovers to the address;
\* the session is then bound to that address under a fresh token, and in every
\* other case the request is rejected and the session map is unchanged
C21_SessionOnlyForFreshSignedNonce ==
    [][IsVerifyStep =>
          LET address == Lower(resp'.address)
              token == resp'.token
          IN  IF resp'.code = 200
              THEN /\ address \in DOMAIN AUTH_NONCES
                   /\ AUTH_NONCES[address].nonce = resp'.nonce
                   /\ ~(now - AUTH_NONCES[address].created_at > NONCE_EXPIRY_SECONDS)
                   /\ Lower(recover_message(AuthMessage(resp'.nonce, address),
                                            resp'.signature)) = address
                   /\ token \notin DOMAIN AUTH_SESSIONS
                   /\ DOMAIN AUTH_SESSIONS' = DOMAIN AUTH_SESSIONS \cup {token}
                   /\ AUTH_SESSIONS'[token].address = address
                   /\ \A k \in DOMAIN AUTH_SESSIONS :
                         AUTH_SESSIONS'[k] = AUTH_SESSIONS[k]
              ELSE /\ resp'.code \in {400, 401, 429, 503}
                   /\ AUTH_SESSIONS' = AUTH_SESSIONS
                   /\ issued' = issued
      ]_vars

\* a session was created for a nonce that was exactly 300 s old, for an address
\* submitted in mixed case
C21_Witness ==
    /\ resp.op = "verify" /\ resp.code = 200
    /\ resp.address = AddrAMixed
    /\ resp.token \in DOMAIN AUTH_SESSIONS
    /\ AUTH_SESSIONS[resp.token].address = AddrA
    /\ AUTH_SESSIONS[resp.token].expires_at
          = NONCE_EXPIRY_SECONDS + SESSION_EXPIRY_SECONDS
    /\ ticks = 1
    /\ resp.nonce \in consumed[AddrA]

\* this step answers a verify that was admitted by the rate limiter, for a
\* well-formed address
IsAdmittedVerify ==
    /\ IsVerifyStep
    /\ RateAllowed(requests, VerifyKey, VerifyRateMax, RateWindow, now)
    /\ ~AddressRejected(resp'.address)

\* the nonce submitted in this step is the one stored for the address, and it
\* is not older than NONCE_EXPIRY_SECONDS
NonceChecksPass ==
    LET address == Lower(resp'.address)
    IN  /\ address \in DOMAIN AUTH_NONCES
        /\ ~(now - AUTH_NONCES[address].created_at > NONCE_EXPIRY_SECONDS)
        /\ AUTH_NONCES[address].nonce = resp'.nonce

\* the signature submitted in this step recovers to the address
SignatureRecovers ==
    LET address == Lower(resp'.address)
    IN  Lower(recover_message(AuthMessage(resp'.nonce, address), resp'.signature))
            = address

\* this step answers an admitted verify that fails on its nonce (none stored,
\* expired, or not the submitted one) or on its signature
IsAuthFailure ==
    /\ IsAdmittedVerify
    /\ ETH_ACCOUNT_AVAILABLE
    /\ ~(NonceChecksPass /\ SignatureRecovers)

\* C22: every authentication failure of a verify (nonce missing, expired or
\* mismatched, signature mismatched) is answered 401 with one and the same
\* reason, so the answer does not tell which check failed
C22_AuthFailuresUndifferentiated ==
    [][IsAuthFailure =>
          /\ resp'.code = 401
          /\ resp'.detail = "Invalid signature"
      ]_vars

\* C23: while eth_account is unavailable every verify is refused with an error
\* (503 when it gets as far as the signature), no session exists and no token
\* is issued, and a stored nonce that has not expired stays stored; a verify is
\* answered 200 only when eth_account is available
C23_NoVerifyWithoutRecovery ==
    /\ [](~ETH_ACCOUNT_AVAILABLE => (DOMAIN AUTH_SESSIONS = {} /\ issued = 0))
    /\ [][(IsVerifyStep /\ ~ETH_ACCOUNT_AVAILABLE) =>
            /\ resp'.code \in {400, 429, 503}
            /\ (IsAdmittedVerify /\ NonceChecksPass) => resp'.code = 503
            /\ AUTH_SESSIONS' = AUTH_SESSIONS
            /\ issued' = issued
            /\ \A a \in DOMAIN AUTH_NONCES :
                  ~(now - AUTH_NONCES[a].created_at > NONCE_EXPIRY_SECONDS) =>
                      /\ a \in DOMAIN AUTH_NONCES'
                      /\ AUTH_NONCES'[a] = AUTH_NONCES[a]
         ]_vars
    /\ [][(IsVerifyStep /\ resp'.code = 200) => ETH_ACCOUNT_AVAILABLE]_vars

\* a verify with the stored nonce and the owner's signature was refused with 503
\* and the nonce is still stored
C23_Witness ==
    /\ ~ETH_ACCOUNT_AVAILABLE
    /\ resp.op = "verify" /\ resp.code = 503
    /\ Lower(recover_message(AuthMessage(resp.nonce, Lower(resp.address)),
                             resp.signature)) = Lower(resp.address)
    /\ Lower(resp.address) \in DOMAIN AUTH_NONCES
    /\ AUTH_NONCES[Lower(resp.address)].nonce = resp.nonce
    /\ DOMAIN AUTH_SESSIONS = {}

\* the limit of a rate-limited endpoint
LimitOf(key) == IF key = NonceKey THEN NonceRateMax ELSE VerifyRateMax

\* the endpoint behind a limiter key
OpOf(key) == IF key = NonceKey THEN "nonce" ELSE "verify"

\* number of requests admitted under the key at a time t with from <= t < to
AdmittedBetween(key, from, to) ==
    Cardinality({i \in DOMAIN admitted[key] :
                    from <= admitted[key][i] /\ admitted[key][i] < to})

\* C24: for the client, every 60-second window holds at most 20 admitted nonce
\* requests and at most 10 admitted verify attempts; a request is answered 429
\* exactly when the 60 seconds up to now already hold that many admitted
\* requests, and then it is not counted and changes no nonce and no session
C24_RateLimited ==
    /\ [](\A key \in RateKeys : \A i \in DOMAIN admitted[key] :
            AdmittedBetween(key, admitted[key][i], admitted[key][i] + RateWindow)
                <= LimitOf(key))
    /\ [][\A key \in RateKeys :
            (reqs' = reqs + 1 /\ resp'.op = OpOf(key)) =>
                IF AdmittedBetween(key, now - RateWindow + 1, now + 1) >= LimitOf(key)
                THEN /\ resp'.code = 429
                     /\ admitted' = admitted
                     /\ requests'[key]
                           = SelectSeq(requests[key], LAMBDA x : now - x < RateWindow)
                     /\ UNCHANGED <<AUTH_NONCES, AUTH_SESSIONS, issued>>
                ELSE /\ resp'.code # 429
                     /\ admitted' = [admitted EXCEPT ![key] = Append(@, now)]
         ]_vars

\* the client made 20 nonce requests at second 0, and its request 59 seconds
\* later was answered 429
C24_Witness ==
    /\ resp.op = "nonce" /\ resp.code = 429
    /\ now = RateWindow - 1
    /\ Len(admitted[NonceKey]) = NonceRateMax
    /\ Len(requests[NonceKey]) = NonceRateMax

(***************************************************************************)
(* Input validation on its own (SpecInputs): validate_ssh_host is called   *)
(* on literal addresses, names and other texts under both values of the    *)
(* override flag, and the executor operations are called with app          *)
(* identifiers of every shape.                                             *)
(***************************************************************************)
MaxShortName == 2      \* identifiers up to this length are enumerated

\* the host texts the validation is called with
HostInputs ==
    {"1.2.3.4", "8.8.8.8", "93.184.216.34", "172.32.0.1", "192.0.0.8",
     "2001:4860:4860::8888",
     "10.0.0.1", "127.0.0.2", "172.16.0.1", "172.31.255.255", "192.168.1.1",
     "169.254.1.1", "198.18.0.1", "203.0.113.5", "240.0.0.1", "255.255.255.255",
     "fe80::1", "fc00::1", "2001:db8::1", "::ffff:10.0.0.1", " 10.0.0.1 ",
     "169.254.169.254", "metadata.google.internal", "100.100.100.200",
     "metadata.azure.com",
     "localhost", "LOCALHOST", " localhost", "127.0.0.1", "::1", "0.0.0.0",
     "example.com", "internal.example.com", "127.1", ""}

\* the address the ssh client connects to for f"{user}@{host}": the literal itself,
\* or what the resolver of the server's network answers for a name
SshTarget(host) ==
    IF ip_address(host) # NotAnIp THEN ip_address(host)
    ELSE CASE host = "localhost" -> Ipv4(127, 0, 0, 1)
           [] host = "127.1" -> Ipv4(127, 0, 0, 1)
           [] host = "internal.example.com" -> Ipv4(10, 0, 0, 1)
           [] host = "metadata.google.internal" -> Ipv4(169, 254, 169, 254)
           [] host = "example.com" -> Ipv4(93, 184, 216, 34)
           [] OTHER -> NotAnIp

\* one call of validate_ssh_host(host) in a process started with the flag set or not
ValidateHostCall(host, allow_internal) ==
    /\ resp' = [op |-> "validate_ssh_host", host |-> host,
                allow_internal |-> allow_internal,
                raised |-> HostRejectedWith(host, allow_internal),
                returned |-> IF HostRejectedWith(host, allow_internal) THEN NONE
                             ELSE validate_ssh_host(host)]
    /\ UNCHANGED <<now, ticks, authVars, storeVars, jobVars>>

\* the characters of the app identifiers: five of the class [a-zA-Z0-9_-] and five
\* outside it
LF == "\n"
NameChars == {"a", "Z", "7", "_", "-"}
OtherChars == {"/", ".", LF, " ", ";"}
Chars == NameChars \cup OtherChars

\* the characters of [a-zA-Z0-9_-] that occur in the model: those above and the
\* letters of the app names
NameClass == NameChars \cup {"d", "e", "f", "g", "h", "i", "m", "n", "o", "p", "r", "s",
                             "t", "u", "x"}

\* c * n
Repeat(c, n) == [i \in 1..n |-> c]

\* the identifiers the executor is called with: every text of up to MaxShortName
\* characters, and texts of 63, 64 and 65 characters
AppNameInputs ==
    UNION {[1..n -> Chars] : n \in 0..MaxShortName}
        \cup {Repeat("a", 63) \o <<c>> : c \in Chars}
        \cup {Repeat("a", 64) \o <<c>> : c \in Chars}
        \cup {Repeat("a", 63), Repeat("a", 64), Repeat("a", 66)}

\* re.match(r'^[a-zA-Z0-9_-]+$', app_name): '$' matches at the end of the text and
\* also just before a newline that ends the text
re_match(app_name) ==
    LET n == Len(app_name)
        body == IF n > 0 /\ app_name[n] = LF THEN SubSeq(app_name, 1, n - 1)
                ELSE app_name
    IN  body # <<>> /\ \A i \in 1..Len(body) : body[i] \in NameClass

\* _sanitize_app_name: the message of the ValueError it raises, NONE when it returns
_sanitize_app_name(app_name) ==
    IF app_name = <<>> THEN "App name cannot be empty"
    ELSE IF ~re_match(app_name) THEN "Invalid app name"
    ELSE IF Len(app_name) > 64 THEN "App name too long"
    ELSE NONE

ExecutorMethods == {"deploy_compose", "get_app_status", "stop_app", "remove_app"}

\* the result of the first remote command of an executor method, and the status
\* the method reports when that command decides it
FirstCommand(method) ==
    CASE method = "deploy_compose" -> "mkdir -p"
      [] method = "get_app_status" -> "test -d"
      [] method = "stop_app" -> "docker compose down"
      [] method = "remove_app" -> "docker compose down -v"

ExecutorStatuses(method) ==
    CASE method = "deploy_compose" -> {"running", "failed"}
      [] method = "get_app_status" -> {"not_found", "running", "degraded", "stopped",
                                       "unknown"}
      [] method = "stop_app" -> {"stopped", "failed"}
      [] method = "remove_app" -> {"removed", "failed"}

\* the status of the result a method returns when the sanitizer raised
SanitizerStatus(method) ==
    IF method = "deploy_compose" THEN "failed" ELSE "error"

\* one call of an executor method with an app identifier; commands are the remote
\* commands it ran, each with the directory it names
ExecutorCall(method, app_name, status) ==
    LET error == _sanitize_app_name(app_name)
    IN  /\ IF error # NONE
           THEN /\ status = SanitizerStatus(method)
                /\ resp' = [op |-> "executor", method |-> method, app_name |-> app_name,
                            status |-> status, error |-> error, commands |-> <<>>]
           ELSE /\ status \in ExecutorStatuses(method)
                /\ resp' = [op |-> "executor", method |-> method, app_name |-> app_name,
                            status |-> status, error |-> NONE,
                            commands |-> <<[command |-> FirstCommand(method),
                                            dir |-> app_name]>>]
        /\ UNCHANGED <<now, ticks, authVars, storeVars, jobVars>>

NextInputs ==
    \/ \E host \in HostInputs, allow_internal \in BOOLEAN :
          ValidateHostCall(host, allow_internal)
    \/ \E method \in ExecutorMethods, app_name \in AppNameInputs,
          status \in {"failed", "error", "running", "not_found", "degraded",
                      "stopped", "unknown", "removed"} :
          ExecutorCall(method, app_name, status)

SpecInputs == InitJobs /\ [][NextInputs]_vars

(***************************************************************************)
(* The deploy endpoint on its own (SpecDeploy): logged-in and anonymous    *)
(* clients post requests with every kind of app id, host and port, each    *)
(* accepted request's job makes its first connection, and clients list     *)
(* their deployments.                                                      *)
(***************************************************************************)
DeployInputs ==
    {<<SSHDeployRequest("nginx-demo", GoodHost, port, TRUE, "abc123"), Bearer(1)>> :
         port \in {0, 1, 22, 65535, 65536}}
      \cup {<<SSHDeployRequest("nginx-demo", host, 22, FALSE, NONE), Bearer(2)>> :
               host \in {PrivateHost, " 10.0.0.1 ", "localhost", "169.254.169.254",
                         "internal.example.com", "127.1", "example.com", ""}}
      \cup {<<SSHDeployRequest("nginx-demo", GoodHost, 22, TRUE, "abc123"), NoHeader>>,
            <<SSHDeployRequest("nginx-demo", GoodHost, 22, TRUE, "abc123"), Bearer(99)>>,
            <<SSHDeployRequest("no-such-app", GoodHost, 22, TRUE, "abc123"), Bearer(1)>>,
            <<SSHDeployRequest("no-such-app", PrivateHost, 0, TRUE, "abc123"), Bearer(1)>>,
            <<SSHDeployRequest("no-such-app", PrivateHost, 0, TRUE, "abc123"), NoHeader>>,
            <<SSHDeployRequest("nginx-demo", PrivateHost, 0, TRUE, "abc123"), Bearer(1)>>,
            <<SSHDeployRequest("postgres", GoodHost, 22, FALSE, NONE), Bearer(3)>>}

\* the Authorization headers of SpecDeploy: none, the tokens of A, B and C, and a
\* token that was never issued
DeployHeaders == {NoHeader, Bearer(1), Bearer(2), Bearer(3), Bearer(99)}

NextDeploy ==
    \/ \E r \in DeployInputs : deploy_via_ssh(r[1], r[2])
    \/ \E i \in 1..Len(tasks) : JobStart(i)
    \/ \E h \in DeployHeaders : get_my_deployments(h)

SpecDeploy == InitJobs /\ [][NextDeploy]_vars

\* the step is the handling of deploy request r
IsDeployOf(r) == deploy_via_ssh(r[1], r[2])

\* what a deploy request must lead to, read from the state before the request
DeployOutcome(request, authorization) ==
    LET session == SessionOf(authorization)
        accepted == /\ session # NoSession
                    /\ request.app_id \in DOMAIN APPS
                    /\ ~HostRejected(request.ssh_host)
                    /\ request.ssh_port \in 1..65535
        id == resp'.deployment_id
        record == get_deployment(deployments', id)
    IN  IF accepted
        THEN /\ resp'.code = 200
             /\ id \in Ids(deployments')
             /\ record.status = "deploying"
             /\ record.address = session.address
             /\ record.app_id = request.app_id
             /\ id \in DOMAIN DEPLOY_JOBS'
             /\ Len(jobs') = Len(jobs) + 1
             /\ DEPLOY_JOBS'[id] = Len(jobs')
             /\ jobs'[Len(jobs')].step = "queued"
             /\ jobs'[Len(jobs')].status = "running"
             /\ Len(tasks') = Len(tasks) + 1
             /\ tasks'[Len(tasks')].deployment_id = id
             /\ tasks'[Len(tasks')].pc = "created"
             /\ tasks'[Len(tasks')].probes = 0
        ELSE /\ resp'.code = (IF session = NoSession THEN 401
                              ELSE IF request.app_id \notin DOMAIN APPS THEN 404
                              ELSE 400)
             /\ UNCHANGED <<deployments, disk, DEPLOY_JOBS, jobs, tasks>>

\* C25: POST /api/deploy/ssh accepts a request exactly when the session is valid, the
\* app id is in the catalog, the host passes validate_ssh_host and the port is in
\* 1..65535; an accepted request leaves a Store record with status deploying owned by
\* the session address and a job with step queued whose task has not run a step, and
\* returns the identifier; a rejected request is answered 401, 404 or 400 and
\* changes neither the Store nor the jobs.
C25_DeployAcceptance ==
    [][\A r \in DeployInputs : IsDeployOf(r) => DeployOutcome(r[1], r[2])]_vars

\* two requests, on ports 1 and 65535, have been accepted and neither job has run
\* a step
C25_Witness ==
    /\ resp.op = "deploy"
    /\ resp.code = 200
    /\ Len(tasks) = 2
    /\ {tasks[i].request.ssh_port : i \in 1..Len(tasks)} = {1, 65535}
    /\ \A i \in 1..Len(tasks) : tasks[i].pc = "created"

\* the literal targets of the claim, by kind
MetadataHosts ==
    {"169.254.169.254", "metadata.google.internal", "100.100.100.200",
     "metadata.azure.com"}
InternalLiterals ==
    {"10.0.0.1", " 10.0.0.1 ", "172.16.0.1", "172.31.255.255", "192.168.1.1",
     "127.0.0.2", "169.254.1.1", "240.0.0.1", "255.255.255.255",
     "198.18.0.1", "203.0.113.5",
     "fe80::1", "fc00::1", "2001:db8::1", "::ffff:10.0.0.1"}
PublicLiterals ==
    {"1.2.3.4", "8.8.8.8", "93.184.216.34", "172.32.0.1", "192.0.0.8",
     "2001:4860:4860::8888"}
LocalhostTexts == {"localhost", "LOCALHOST", " localhost", "127.0.0.1", "::1", "0.0.0.0"}

\* C26: validate_ssh_host rejects the listed metadata hosts and every literal address
\* in a private, loopback, link-local or reserved range whatever the override flag
\* is, accepts a public literal address and returns it, and rejects localhost,
\* 127.0.0.1, ::1 and 0.0.0.0 exactly when the flag is off.
C26_LiteralHostValidation ==
    resp.op = "validate_ssh_host" =>
        /\ resp.host \in MetadataHosts \cup InternalLiterals => resp.raised
        /\ resp.host \in PublicLiterals => ~resp.raised /\ resp.returned = resp.host
        /\ resp.host \in LocalhostTexts => (resp.raised <=> ~resp.allow_internal)

\* 10.0.0.1 has been rejected with the override flag on
C26_Witness ==
    /\ resp.op = "validate_ssh_host"
    /\ resp.host = "10.0.0.1"
    /\ resp.allow_internal
    /\ resp.raised

\* the address is loopback, private, link-local or reserved, or a metadata endpoint
IsInternalTarget(ip) ==
    /\ ip # NotAnIp
    /\ \/ is_private(ip) \/ is_loopback(ip) \/ is_link_local(ip) \/ is_reserved(ip)
       \/ ip \in {Ipv4(169, 254, 169, 254), Ipv4(100, 100, 100, 200)}

\* C27: a host text that resolves to a loopback, private, link-local or reserved
\* address or to a metadata endpoint is rejected, also when it is a hostname, so no
\* job of an accepted deploy request opens an SSH connection to such an address.
C27_NoSshToInternalAddress ==
    \A i \in 1..Len(tasks) :
        tasks[i].probes >= 1 => ~IsInternalTarget(SshTarget(tasks[i].host))

\* an identifier of 1 to 64 characters, each of [A-Za-z0-9_-]
ValidIdentifier(app_name) ==
    /\ Len(app_name) \in 1..64
    /\ \A i \in 1..Len(app_name) : app_name[i] \in NameChars

\* C28: deploy_compose, get_app_status, stop_app and remove_app accept an identifier
\* of 1 to 64 characters of [A-Za-z0-9_-]; for an empty identifier, one of 65 or
\* more characters or one with any other character (a '/', a '.', a trailing
\* newline) they return an error result and run no remote command.
C28_ExecutorRejectsBadIdentifiers ==
    resp.op = "executor" =>
        IF ValidIdentifier(resp.app_name)
        THEN resp.error = NONE /\ resp.commands # <<>>
        ELSE /\ resp.error # NONE
             /\ resp.status \in {"failed", "error"}
             /\ resp.commands = <<>>

\* the keys of a record other than those an update names and updated_at
OtherKeys(rec, updates) == DOMAIN rec \ (DOMAIN updates \cup {"updated_at"})

\* add_deployment(id, address, ...) is followed by a get(id) that returns the fields
\* of the call, the address as given or lower-cased
AddThenGet(id, address, stored_address) ==
    LET rec == get_deployment(deployments', id)
    IN  /\ resp'.ok
        /\ id \in Ids(deployments')
        /\ rec.id = id
        /\ rec.address = stored_address
        /\ rec.app_id = "nginx-demo"
        /\ rec.app_name = "Nginx"
        /\ rec.ssh_host = "203.0.113.5"
        /\ rec.ssh_port = 22
        /\ rec.status = "deploying"
        /\ rec.public_url = NONE
        /\ rec.created_at = isoformat(now)
        /\ \A other \in Ids(deployments) \ {id} :
              get_deployment(deployments', other) = get_deployment(deployments, other)

\* update_deployment(id, **updates): on a known id get(id) has the updated values
\* and every other field but updated_at as before; on an unknown id None is
\* returned and neither the dict nor the snapshot changes
UpdateThenGet(id, updates) ==
    LET old == get_deployment(deployments, id)
        rec == get_deployment(deployments', id)
    IN  IF id \in Ids(deployments)
        THEN /\ resp'.ok
             /\ \A k \in DOMAIN updates : rec[k] = updates[k]
             /\ \A k \in OtherKeys(old, updates) : rec[k] = old[k]
             /\ rec.updated_at = isoformat(now)
             /\ \A other \in Ids(deployments) \ {id} :
                   get_deployment(deployments', other) = get_deployment(deployments, other)
        ELSE /\ ~resp'.ok
             /\ UNCHANGED <<deployments, disk>>

\* remove_deployment on an unknown id returns False and changes neither the dict nor
\* the snapshot; on a known id the record is gone
RemoveThenGet(id) ==
    IF id \in Ids(deployments)
    THEN resp'.ok /\ get_deployment(deployments', id) = NoRecord
    ELSE ~resp'.ok /\ UNCHANGED <<deployments, disk>>

\* C29: after add(id, fields), get(id) returns the fields of the call with the owner
\* address lower-cased, apart from updated_at; after update(id, status=X) on a known
\* id, get(id).status = X and every field the update does not name, except
\* updated_at, is unchanged; update and remove on an unknown id return None and
\* False and change neither the dict in memory nor the snapshot.
C29_ReadAfterWrite ==
    [][/\ \A c \in StoreAdds :
            StoreAdd(c[1], c[2]) =>
                AddThenGet(c[1], c[2], IF c[2] = AddrAMixed THEN AddrA ELSE c[2])
       /\ \A id \in StoreIds, u \in StoreUpdates :
            StoreUpdate(id, u) => UpdateThenGet(id, u)
       /\ \A id \in StoreIds : StoreRemove(id) => RemoveThenGet(id)
      ]_vars

\* d1 has just been set to failed while d2 is in the Store, and both are on disk
C29_Witness ==
    /\ resp.op = "update"
    /\ resp.id = "d1"
    /\ resp.ok
    /\ Ids(deployments) = {"d1", "d2"}
    /\ get_deployment(deployments, "d1").status = "failed"
    /\ get_deployment(deployments, "d1").address = AddrA
    /\ get_deployment(deployments, "d2").status = "running"

\* the records of the Store that belong to an address
RecordsOf(address) ==
    {deployments[i] : i \in {k \in 1..Len(deployments) : deployments[k].address = address}}

\* C30: GET /api/deployments/my with a valid session returns exactly the Store
\* records whose owner is the session address: each of them once, and no record of
\* another owner.
C30_MyDeploymentsExact ==
    [][\A h \in DeployHeaders :
          (get_my_deployments(h) /\ SessionOf(h) # NoSession) =>
              /\ resp'.code = 200
              /\ {resp'.deployments[i] : i \in 1..Len(resp'.deployments)}
                    = RecordsOf(SessionOf(h).address)
              /\ Len(resp'.deployments) = Cardinality(RecordsOf(SessionOf(h).address))
      ]_vars

\* a client has listed its one deployment while the Store also holds a record of
\* another owner
C30_Witness ==
    /\ resp.op = "my"
    /\ resp.code = 200
    /\ Len(resp.deployments) = 1
    /\ Len(deployments) = 2
    /\ \E i \in 1..Len(deployments) : deployments[i].address # resp.caller

(***************************************************************************)
(* deploy_compose on its own (SpecCompose): one call at a time, each       *)
(* action the code from one remote command to the next, its input what     *)
(* run_command returned.  resp holds the call: the result dict so far, the *)
(* step the call waits for, and the commands it has run with what each     *)
(* returned, in order.                                                     *)
(***************************************************************************)
NginxName == <<"n", "g", "i", "n", "x">>
PrometheusName == <<"p", "r", "o", "m", "e", "t", "h", "e", "u", "s">>
GrafanaName == <<"g", "r", "a", "f", "a", "n", "a", "-", "7">>
SlashName == <<"a", "/">>
ComposeNames == {NginxName, PrometheusName, GrafanaName, SlashName}

\* sub in text
Contains(text, sub) ==
    \E i \in 1..(Len(text) - Len(sub) + 1) : SubSeq(text, i, i + Len(sub) - 1) = sub

\* what run_command returns: the exit code and stderr (124 with its own text after
\* a timeout, 1 with str(e) after an exception), and whether stdout has text
CommandOutputs ==
    {[code |-> 0, stderr |-> "", stdout |-> TRUE],
     [code |-> 0, stderr |-> "", stdout |-> FALSE],
     [code |-> 1, stderr |-> "permission denied", stdout |-> FALSE],
     [code |-> 124, stderr |-> "Command timed out", stdout |-> FALSE]}

\* an f-string of a prefix and a stderr text; NoError when the key is not set
ErrorText(prefix, stderr) == [prefix |-> prefix, stderr |-> stderr]
NoError == ErrorText(NONE, NONE)

\* one entry of result["steps"]
StepEntry(step, success) == [step |-> step, success |-> success]

\* the call after a step returned: the step is recorded, and the call goes on to
\* the next command or returns
ComposeGoOn(out, entries, next) ==
    resp' = [resp EXCEPT !.steps = @ \o entries, !.pc = next,
                         !.commands = Append(@, next), !.outputs = Append(@, out)]
ComposeFail(out, entries, error) ==
    resp' = [resp EXCEPT !.steps = @ \o entries, !.pc = "returned",
                         !.status = "failed", !.error = error,
                         !.outputs = Append(@, out)]

ComposeWaits(step) == resp.op = "deploy_compose" /\ resp.pc = step

ComposeFrame == UNCHANGED <<now, ticks, authVars, storeVars, jobVars>>

\* deploy_compose(app_name, compose_content) up to its first remote command
ComposeCall(app_name, compose) ==
    LET error == _sanitize_app_name(app_name)
        keys == (IF compose.password THEN {"password"} ELSE {})
                    \cup (IF compose.root_password THEN {"root_password"} ELSE {})
    IN  /\ resp.op = "deploy_compose" => resp.pc = "returned"
        /\ resp' = IF error # NONE
                   THEN [op |-> "deploy_compose", app_name |-> app_name,
                         pc |-> "returned", status |-> "failed",
                         error |-> ErrorText("", error), steps |-> <<>>,
                         commands |-> <<>>, outputs |-> <<>>,
                         generated_passwords |-> {},
                         containers |-> FALSE]
                   ELSE [op |-> "deploy_compose", app_name |-> app_name,
                         pc |-> "create_directory", status |-> "pending",
                         error |-> NoError, steps |-> <<>>,
                         commands |-> <<"create_directory">>, outputs |-> <<>>,
                         generated_passwords |-> keys, containers |-> FALSE]
        /\ ComposeFrame

\* mkdir -p returned
ComposeDirCreated(out) ==
    /\ ComposeWaits("create_directory")
    /\ IF out.code # 0
       THEN ComposeFail(out, <<StepEntry("create_directory", FALSE)>>,
                        ErrorText("Failed to create directory: ", out.stderr))
       ELSE ComposeGoOn(out, <<StepEntry("create_directory", TRUE)>>, "write_compose")
    /\ ComposeFrame

\* the write of docker-compose.yml returned
ComposeWritten(out) ==
    /\ ComposeWaits("write_compose")
    /\ IF out.code # 0
       THEN ComposeFail(out, <<StepEntry("write_compose", FALSE)>>,
                        ErrorText("Failed to write compose file: ", out.stderr))
       ELSE IF \/ Contains(resp.app_name, PrometheusName)
               \/ Contains(resp.app_name, <<"g", "r", "a", "f", "a", "n", "a">>)
       THEN ComposeGoOn(out, <<StepEntry("write_compose", TRUE)>>, "write_prometheus_config")
       ELSE ComposeGoOn(out, <<StepEntry("write_compose", TRUE)>>, "docker_check")
    /\ ComposeFrame

\* the write of prometheus.yml returned
ComposeConfigWritten(out) ==
    /\ ComposeWaits("write_prometheus_config")
    /\ IF out.code # 0
       THEN ComposeFail(out, <<StepEntry("write_prometheus_config", FALSE)>>,
                        ErrorText("Failed to write prometheus.yml: ", out.stderr))
       ELSE ComposeGoOn(out, <<StepEntry("write_prometheus_config", TRUE)>>, "docker_check")
    /\ ComposeFrame

\* ComposeDockerChecked that installs docker whatever the check says
ComposeDockerChecked_AlwaysInstall(out) ==
    /\ ComposeWaits("docker_check")
    /\ ComposeGoOn(out, <<StepEntry("docker_check", FALSE)>>, "docker_install")
    /\ ComposeFrame

\* check_docker returned: docker --version exited 0 or not
ComposeDockerChecked(out) ==
    /\ ComposeWaits("docker_check")
    /\ IF out.code # 0
       THEN ComposeGoOn(out, <<StepEntry("docker_check", FALSE)>>, "docker_install")
       ELSE ComposeGoOn(out, <<StepEntry("docker_check", TRUE)>>, "docker_compose_up")
    /\ ComposeFrame

\* install_docker returned
ComposeDockerInstalled(out) ==
    /\ ComposeWaits("docker_install")
    /\ IF out.code # 0
       THEN ComposeFail(out, <<StepEntry("docker_install", FALSE)>>,
                        ErrorText("Docker installation failed: ", out.stderr))
       ELSE ComposeGoOn(out, <<StepEntry("docker_install", TRUE)>>, "docker_compose_up")
    /\ ComposeFrame

\* ComposeUp that goes on to the container list whatever the exit code is
ComposeUp_IgnoreExit(out) ==
    /\ ComposeWaits("docker_compose_up")
    /\ ComposeGoOn(out, <<StepEntry("docker_compose_up", out.code = 0)>>, "docker_compose_ps")
    /\ ComposeFrame

\* docker compose pull && docker compose up -d returned
ComposeUp(out) ==
    /\ ComposeWaits("docker_compose_up")
    /\ IF out.code # 0
       THEN ComposeFail(out, <<StepEntry("docker_compose_up", FALSE)>>,
                        ErrorText("Failed to start containers: ", out.stderr))
       ELSE ComposeGoOn(out, <<StepEntry("docker_compose_up", TRUE)>>, "docker_compose_ps")
    /\ ComposeFrame

\* docker compose ps returned: the containers are recorded when it exited 0 with
\* output, and the call returns running in every case
ComposeListed(out) ==
    /\ ComposeWaits("docker_compose_ps")
    /\ resp' = [resp EXCEPT !.pc = "returned", !.status = "running",
                            !.containers = (out.code = 0 /\ out.stdout),
                            !.outputs = Append(@, out)]
    /\ ComposeFrame

NextCompose ==
    \/ \E app_name \in ComposeNames, password \in BOOLEAN :
          ComposeCall(app_name, Compose(<< <<8080, 80>> >>, password, FALSE))
    \/ \E out \in CommandOutputs : ComposeDirCreated(out)
    \/ \E out \in CommandOutputs : ComposeWritten(out)
    \/ \E out \in CommandOutputs : ComposeConfigWritten(out)
    \/ \E out \in CommandOutputs : ComposeDockerChecked(out)
    \/ \E out \in CommandOutputs : ComposeDockerInstalled(out)
    \/ \E out \in CommandOutputs : ComposeUp(out)
    \/ \E out \in CommandOutputs : ComposeListed(out)

SpecCompose == InitJobs /\ [][NextCompose]_vars

\* how often a command occurs among those the call has run
TimesRun(command) ==
    Cardinality({i \in 1..Len(resp.commands) : resp.commands[i] = command})

\* a run of the command has returned with an exit code that is zero, or not
Exited(command, zero) ==
    \E i \in 1..Len(resp.outputs) :
        resp.commands[i] = command /\ (resp.outputs[i].code = 0) = zero

\* C31: within one deploy_compose call the docker install is attempted exactly once
\* when the docker check failed and never when it succeeded; when the install fails
\* the call returns status failed and docker compose up is not run.
C31_DockerInstallOnce ==
    resp.op = "deploy_compose" =>
        /\ Exited("docker_check", FALSE) => TimesRun("docker_install") = 1
        /\ Exited("docker_check", TRUE) => TimesRun("docker_install") = 0
        /\ TimesRun("docker_install") > 0 => Exited("docker_check", FALSE)
        /\ TimesRun("docker_check") <= 1
        /\ Exited("docker_install", FALSE) =>
              /\ resp.pc = "returned"
              /\ resp.status = "failed"
              /\ resp.error = ErrorText("Docker installation failed: ",
                                        resp.outputs[Len(resp.outputs)].stderr)
              /\ TimesRun("docker_compose_up") = 0

\* the install failed after a failed check, and the call has returned
C31_Witness ==
    /\ resp.op = "deploy_compose"
    /\ resp.pc = "returned"
    /\ Exited("docker_check", FALSE)
    /\ Exited("docker_install", FALSE)
    /\ resp.status = "failed"

\* the place of a command in the order of the claim
CommandRank(command) ==
    CASE command = "create_directory" -> 1
      [] command = "write_compose" -> 2
      [] command = "write_prometheus_config" -> 3
      [] command = "docker_check" -> 4
      [] command = "docker_install" -> 5
      [] command = "docker_compose_up" -> 6
      [] command = "docker_compose_ps" -> 7

\* the commands whose exit code gates the next step
GatingCommands ==
    {"create_directory", "write_compose", "write_prometheus_config", "docker_install",
     "docker_compose_up"}

\* C33: deploy_compose runs create-directory, write-compose, the optional supporting
\* config, docker check and install, compose pull+up and the container list in this
\* order; when a gating command exits non-zero the call returns status failed with
\* that command's stderr in error and runs nothing after it; it returns running only
\* when every gating command exited 0, and a failing container list alone does not
\* make it fail.
C33_ComposeStepsGate ==
    (resp.op = "deploy_compose" /\ resp.commands # <<>>) =>
        /\ resp.commands[1] = "create_directory"
        /\ \A i, j \in 1..Len(resp.commands) :
              i < j => CommandRank(resp.commands[i]) < CommandRank(resp.commands[j])
        /\ \A i \in 1..Len(resp.outputs) :
              (resp.commands[i] \in GatingCommands /\ resp.outputs[i].code # 0) =>
                  /\ i = Len(resp.commands)
                  /\ resp.pc = "returned"
                  /\ resp.status = "failed"
                  /\ resp.error.stderr = resp.outputs[i].stderr
        /\ resp.status = "running" =>
              /\ resp.pc = "returned"
              /\ Len(resp.outputs) = Len(resp.commands)
              /\ {"create_directory", "write_compose", "docker_check",
                  "docker_compose_up", "docker_compose_ps"}
                    \subseteq {resp.commands[i] : i \in 1..Len(resp.commands)}
              /\ \A i \in 1..Len(resp.commands) :
                    resp.commands[i] \in GatingCommands => resp.outputs[i].code = 0
              /\ Exited("docker_check", TRUE) \/ Exited("docker_install", TRUE)
        /\ Exited("docker_compose_ps", FALSE) =>
              resp.pc = "returned" /\ resp.status = "running" /\ ~resp.containers
        /\ resp.pc = "returned" =>
              resp.status = "running" \/ (resp.status = "failed" /\ resp.error # NoError)

\* a call for the prometheus app installed docker, started the containers and
\* returned running although the container list failed
C33_Witness ==
    /\ resp.op = "deploy_compose"
    /\ resp.app_name = PrometheusName
    /\ resp.pc = "returned"
    /\ resp.status = "running"
    /\ Len(resp.commands) = 7
    /\ Exited("docker_compose_ps", FALSE)

\* C32: two accepted deploy requests never share a deployment identifier: every
\* accepted request has its own Job, and its Store record, while it exists, is the
\* one its own request created.
C32_IdentifiersDistinct ==
    /\ \A i, j \in 1..Len(tasks) :
          i # j => tasks[i].deployment_id # tasks[j].deployment_id
    /\ Cardinality(DOMAIN DEPLOY_JOBS) = Len(tasks)
    /\ \A i \in 1..Len(tasks) : ~tasks[i].disturbed

(***************************************************************************)
(* SpecJobs with the scheduling of the event loop: a task whose awaited    *)
(* call has returned is resumed, and every awaited call returns (each      *)
(* remote command and HTTP call is bounded by a timeout), so the next step *)
(* of every task is eventually taken.                                      *)
(***************************************************************************)
TaskStep(i) ==
    /\ i \in 1..Len(tasks)
    /\ \/ JobStart(i)
       \/ \E n \in FailedInARow : JobProbeRetry(i, n)
       \/ JobConnectFailed(i)
       \/ JobConnected(i)
       \/ JobRaised(i)
       \/ \E key_exists \in BOOLEAN :
             \/ \E r \in ComposeResults(APPS[tasks[i].request.app_id]) :
                   JobDeployed(i, r, key_exists)
             \/ \E sub \in Subdomains : JobLookedUp(i, sub, key_exists)
             \/ \E r \in ProxyResults(tasks[i].subdomain) : JobProxied(i, r, key_exists)
       \/ \E code \in {0, 1} : JobRevoked(i, code)

\* the deploy requests of SpecJobsLive: A deploys nginx-demo behind a public URL, B
\* deploys the catalog entry that has no compose document
LiveDeployRequests ==
    {<<SSHDeployRequest("nginx-demo", GoodHost, 22, TRUE, "abc123"), Bearer(1)>>,
     <<SSHDeployRequest("no-compose", GoodHost, 22, FALSE, NONE), Bearer(2)>>}

NextJobsLive ==
    \/ \E r \in LiveDeployRequests : deploy_via_ssh(r[1], r[2])
    \/ \E i \in 1..MaxDeploys : TaskStep(i)

SpecJobsLive ==
    InitJobs /\ [][NextJobsLive]_vars /\ \A i \in 1..MaxDeploys : WF_vars(TaskStep(i))

\* the calls task i has made so far
CallsOf(i) ==
    <<tasks[i].probes, tasks[i].composes, tasks[i].lookups, tasks[i].proxies,
      tasks[i].revokes>>

\* no other accepted request has the deployment identifier of task i
OwnId(i) ==
    /\ ~tasks[i].disturbed
    /\ \A k \in 1..Len(tasks) :
          k # i => tasks[k].deployment_id # tasks[i].deployment_id

\* the job of task i has ended complete or failed
JobEnded(i) ==
    /\ Len(tasks) >= i
    /\ tasks[i].pc = "ended"
    /\ jobs[tasks[i].job].status \in {"complete", "failed"}

\* C34: the background job of every accepted deployment eventually ends with Job
\* status complete or failed, after at most 12 probes and at most one run of each
\* later phase, and from then on it makes no call and no write: its Job and its
\* Store record stay as they are unless another request has the same identifier.
C34_JobsTerminate ==
    /\ [](\A i \in 1..Len(tasks) :
            /\ tasks[i].probes <= 12
            /\ tasks[i].composes <= 1 /\ tasks[i].lookups <= 1
            /\ tasks[i].proxies <= 1 /\ tasks[i].revokes <= 1)
    /\ [][\A i \in 1..Len(tasks) :
            tasks[i].pc = "ended" =>
                /\ tasks'[i].pc = "ended"
                /\ CallsOf(i)' = CallsOf(i)
                /\ (OwnJob(i) /\ OwnJob(i)') => jobs'[tasks[i].job] = jobs[tasks[i].job]
                /\ (OwnId(i) /\ OwnId(i)') =>
                      get_deployment(deployments', tasks[i].deployment_id)
                          = get_deployment(deployments, tasks[i].deployment_id)
         ]_vars
    /\ \A i \in 1..MaxDeploys : (Len(tasks) >= i) ~> JobEnded(i)

\* two jobs have ended, one complete after every phase and one failed after its
\* twelfth probe
C34_Witness ==
    /\ Len(tasks) = 2
    /\ JobEnded(1) /\ JobEnded(2)
    /\ \E i, k \in 1..2 :
          /\ tasks[i].revokes = 1 /\ jobs[tasks[i].job].status = "complete"
          /\ tasks[k].probes = 12 /\ ~tasks[k].connected
          /\ jobs[tasks[k].job].status = "failed"

(***************************************************************************)
(* Removal of a record against the writes that are still on their way.     *)
(***************************************************************************)
MaxOverlap == 2        \* handlers suspended at the same time in SpecRemoval

\* deployments of two owners, their jobs, and status and delete requests of the
\* owners that may overlap each other and the jobs
Owners == {Bearer(1), Bearer(2)}

NextRemoval ==
    \/ \E r \in LiveDeployRequests : deploy_via_ssh(r[1], r[2])
    \/ \E i \in 1..MaxDeploys : TaskStep(i)
    \/ \E id \in DOMAIN DEPLOY_JOBS, h \in Owners : StatusBeginWithin(MaxOverlap, id, h)
    \/ \E k \in 1..Len(inflight), ok \in BOOLEAN : StatusProbed(k, ok)
    \/ \E k \in 1..Len(inflight), st \in AppStatuses : StatusChecked(k, st)
    \/ \E id \in DOMAIN DEPLOY_JOBS, h \in Owners :
          LifecycleBeginWithin(MaxOverlap, "delete", id, h)
    \/ \E k \in 1..Len(inflight), ok \in BOOLEAN : DeleteDone(k, ok)

SpecRemoval == InitLoggedIn /\ [][NextRemoval]_vars

\* the identifiers in the snapshot file, as a restart would load them
SnapshotIds == Ids(_load(disk))

\* a step of a background job or the completion of a suspended handler: no
\* request arrives in it
NoArrival == reqs' = reqs

\* C35: after DELETE /api/deployments/{id} removed a record, no write of a job
\* that is still running and no live-status refresh that was in flight puts the
\* record back, in the Store or in the snapshot: only a request creates a record.
\* The DELETE removes the record whether remove_app reported removed or failed.
C35_RemovedStaysRemoved ==
    /\ []((resp.op = "delete" /\ resp.code = 200) =>
              /\ resp.deployment_id \notin Ids(deployments)
              /\ resp.deployment_id \notin SnapshotIds)
    /\ [][NoArrival =>
              /\ Ids(deployments') \subseteq Ids(deployments)
              /\ SnapshotIds' \subseteq SnapshotIds
         ]_vars

\* one deployment, deleted; the status refresh that was in flight finished after
\* the DELETE (its answer is the last one) and the job has run to its end: the
\* record is in neither place
C35_Witness ==
    /\ Len(tasks) = 1 /\ tasks[1].pc = "ended"
    /\ reqs = 3
    /\ resp.op = "status" /\ resp.code = 200 /\ resp.status = "running"
    /\ resp.deployment_id = tasks[1].deployment_id
    /\ inflight = <<>>
    /\ resp.deployment_id \notin Ids(deployments)
    /\ resp.deployment_id \notin SnapshotIds

(***************************************************************************)
(* The lifecycle stop and the Store status.                                *)
(***************************************************************************)
\* C36: the Store status becomes stopped only when the stop brought the
\* containers down: when stop_app reports failed ('docker compose down' exited
\* non-zero, timed out, or the host was unreachable), the stop request leaves the
\* Store status of the record as it was
C36_FailedStopKeepsStatus ==
    [][\A k \in 1..Len(inflight) :
          (StopDone(k, FALSE) /\ inflight[k].deployment_id \in Ids(deployments)) =>
              get_deployment(deployments', inflight[k].deployment_id).status
                  = get_deployment(deployments, inflight[k].deployment_id).status
      ]_vars

(***************************************************************************)
(* The pending nonce of an address.                                        *)
(***************************************************************************)
\* the nonce stored for the address is older than the expiry window
NonceExpired(address) ==
    now - AUTH_NONCES[address].created_at > NONCE_EXPIRY_SECONDS

\* this step answers a verify that was rejected for a nonce mismatch or for an
\* invalid signature
IsMismatchOrBadSignature ==
    /\ IsVerifyStep
    /\ \/ resp'.code = 400 /\ resp'.detail = "Invalid nonce"
       \/ resp'.code = 401 /\ resp'.detail = "Invalid signature"

\* the last answer was such a rejection for the address, and this step is a verify
\* for the same address with the stored nonce, inside its window, signed by the
\* address
IsCorrectVerifyAfterRejection ==
    LET address == Lower(resp'.address)
    IN  /\ IsVerifyStep
        /\ resp.op = "verify" /\ resp.detail \in {"Invalid nonce", "Invalid signature"}
        /\ Lower(resp.address) = address
        /\ address \in DOMAIN AUTH_NONCES
        /\ AUTH_NONCES[address].nonce = resp'.nonce
        /\ ~NonceExpired(address)
        /\ Lower(recover_message(AuthMessage(resp'.nonce, address), resp'.signature))
              = address

\* the rejected verify leaves the stored nonce of its address as it was
RejectionKeepsNonce ==
    [][IsMismatchOrBadSignature =>
          LET address == Lower(resp'.address)
          IN  /\ address \in DOMAIN AUTH_NONCES
              /\ address \in DOMAIN AUTH_NONCES'
              /\ AUTH_NONCES'[address] = AUTH_NONCES[address]
      ]_vars

\* a stored nonce goes away only by its expiry or by the successful verify of its
\* address
RemovedOnlyByUseOrExpiry ==
    [][\A address \in DOMAIN AUTH_NONCES :
          address \notin DOMAIN AUTH_NONCES' =>
              \/ NonceExpired(address)
              \/ /\ IsVerifyStep /\ resp'.code = 200
                 /\ Lower(resp'.address) = address
      ]_vars

\* C37 as stated: a verify rejected for a nonce mismatch or an invalid signature
\* leaves the stored nonce of the address unchanged (only a successful verify or
\* expiry removes it), so a later verify with the correct nonce and signature within
\* 300 s of issuance succeeds
C37_LaterVerifySucceeds ==
    /\ RejectionKeepsNonce
    /\ RemovedOnlyByUseOrExpiry
    /\ [][IsCorrectVerifyAfterRejection => resp'.code = 200]_vars

\* C37, amended: the rejected verify leaves the stored nonce unchanged and only a
\* successful verify or expiry removes it; the later verify with the correct nonce
\* and signature inside the window is answered 429 when the rate limiter refuses
\* it (the rejected attempts count against the limit), 503 when signature recovery
\* is unavailable, and succeeds otherwise
C37_RejectionKeepsNonce ==
    /\ RejectionKeepsNonce
    /\ RemovedOnlyByUseOrExpiry
    /\ [][IsCorrectVerifyAfterRejection =>
            resp'.code =
                IF ~RateAllowed(requests, VerifyKey, VerifyRateMax, RateWindow, now)
                THEN 429
                ELSE IF ~ETH_ACCOUNT_AVAILABLE THEN 503 ELSE 200
         ]_vars

\* a verify was rejected for an invalid signature when the nonce was exactly 300 s
\* old, and the nonce it named is still the stored one
C37_Witness ==
    /\ resp.op = "verify" /\ resp.code = 401 /\ resp.detail = "Invalid signature"
    /\ Lower(resp.address) \in DOMAIN AUTH_NONCES
    /\ AUTH_NONCES[Lower(resp.address)].nonce = resp.nonce
    /\ now - AUTH_NONCES[Lower(resp.address)].created_at = NONCE_EXPIRY_SECONDS

\* the addresses and nonces of the nonce requests
NonceCalls == {AddrAMixed, AddrB, MalformedAddress} \X Nonces

\* the nonces of the other addresses that are stored and inside their window
PendingOthers(address) ==
    {b \in DOMAIN AUTH_NONCES : b # address /\ ~NonceExpired(b)}

\* C40: an address has at most one pending nonce, stored under its lower-case
\* form: an answered nonce request replaces the earlier nonce of the address and
\* restarts its 300 s window, a verify with a nonce other than the stored one is
\* rejected even with a valid signature over it, and a nonce request for one
\* address leaves the pending nonce of every other address as it was
C40_OnePendingNoncePerAddress ==
    /\ [](\A a \in DOMAIN AUTH_NONCES : a = Lower(a))
    /\ [][\A c \in NonceCalls :
            get_auth_nonce(c[1], c[2]) =>
                LET address == Lower(c[1])
                IN  /\ resp'.code = 200 =>
                          /\ address \in DOMAIN AUTH_NONCES'
                          /\ AUTH_NONCES'[address].nonce = c[2]
                          /\ AUTH_NONCES'[address].created_at = now
                    /\ \A b \in PendingOthers(address) :
                          /\ b \in DOMAIN AUTH_NONCES'
                          /\ AUTH_NONCES'[b] = AUTH_NONCES[b]
                    /\ DOMAIN AUTH_NONCES' \subseteq DOMAIN AUTH_NONCES \cup {address}
         ]_vars
    /\ [][(/\ IsVerifyStep
           /\ Lower(resp'.address) \in DOMAIN AUTH_NONCES
           /\ AUTH_NONCES[Lower(resp'.address)].nonce # resp'.nonce) =>
              /\ resp'.code # 200
              /\ AUTH_SESSIONS' = AUTH_SESSIONS
         ]_vars

\* two nonce requests were admitted, at 0 and at 300 s; the address holds one
\* nonce, issued at 300 s, and a verify with the other nonce, signed by the
\* address, was rejected as an invalid nonce
C40_Witness ==
    /\ admitted[NonceKey] = <<0, NONCE_EXPIRY_SECONDS>>
    /\ DOMAIN AUTH_NONCES = {AddrA}
    /\ AUTH_NONCES[AddrA] = [nonce |-> "n2", created_at |-> NONCE_EXPIRY_SECONDS]
    /\ resp.op = "verify" /\ resp.code = 400 /\ resp.detail = "Invalid nonce"
    /\ resp.address = AddrAMixed /\ resp.nonce = "n1" /\ resp.valid

(***************************************************************************)
(* The failures of a job in the Job and in the Store.                      *)
(***************************************************************************)
\* this step ends task i with its Job set to failed
JobFails(i) ==
    /\ tasks[i].pc # "ended" /\ tasks'[i].pc = "ended"
    /\ jobs'[tasks[i].job].status = "failed"

\* C38: the step in which a job sets its Job to failed (no connection, a
\* deploy_compose that did not return running, or a caught exception) also writes
\* status failed and the same error text to the Store record; so for a run that
\* is alone on its identifier, while the record exists and no request of the
\* lifecycle API has written it, Job status failed implies Store status failed
\* with the same error
C38_JobFailureReachesStore ==
    /\ [][\A i \in 1..Len(tasks) :
            JobFails(i) =>
                LET id == tasks[i].deployment_id
                    job == jobs'[tasks[i].job]
                IN  /\ job.error # ABSENT
                    /\ id \in Ids(deployments) =>
                          /\ id \in Ids(deployments')
                          /\ get_deployment(deployments', id).status = "failed"
                          /\ get_deployment(deployments', id).error = job.error
         ]_vars
    /\ [](\A i \in 1..Len(tasks) :
            (/\ tasks[i].job # 0
             /\ OwnId(i)
             /\ tasks[i].deployment_id \in Ids(deployments)
             /\ jobs[tasks[i].job].status = "failed") =>
                LET rec == get_deployment(deployments, tasks[i].deployment_id)
                IN  /\ rec.status = "failed"
                    /\ rec.error = jobs[tasks[i].job].error)

\* a job ended failed because deploy_compose could not start the containers; its
\* record holds the same error, and another job ended failed on a caught exception
C38_Witness ==
    \E i, k \in 1..Len(tasks) :
        /\ tasks[i].pc = "ended" /\ tasks[i].deployed = "failed" /\ OwnId(i)
        /\ jobs[tasks[i].job].status = "failed"
        /\ jobs[tasks[i].job].error = "Failed to start containers"
        /\ get_deployment(deployments, tasks[i].deployment_id).status = "failed"
        /\ get_deployment(deployments, tasks[i].deployment_id).error
              = "Failed to start containers"
        /\ tasks[k].raised # NONE /\ OwnId(k)
        /\ tasks[k].deployment_id \in Ids(deployments)
        /\ get_deployment(deployments, tasks[k].deployment_id).error = tasks[k].raised

(***************************************************************************)
(* The key-removal command and the phases before it (SpecRevoke): jobs     *)
(* with and without a publish phase, a catalog entry without a compose     *)
(* document, and a publish phase that raises.                              *)
(***************************************************************************)
RevokeDeployRequests ==
    LiveDeployRequests
        \cup {<<SSHDeployRequest("nginx-demo", GoodHost, 22, FALSE, NONE), Bearer(2)>>}

NextRevoke ==
    \/ \E r \in RevokeDeployRequests : deploy_via_ssh(r[1], r[2])
    \/ \E i \in 1..MaxDeploys : TaskStep(i)
    \/ \E i \in 1..Len(tasks), resaved \in BOOLEAN : JobPublishRaised(i, resaved)

SpecRevoke == InitJobs /\ [][NextRevoke]_vars

\* a step of task i past deploy_compose that finds the server key file
StepWithKey(i) ==
    \/ \E r \in ComposeResults(APPS[tasks[i].request.app_id]) : JobDeployed(i, r, TRUE)
    \/ \E sub \in Subdomains : JobLookedUp(i, sub, TRUE)
    \/ \E r \in ProxyResults(tasks[i].subdomain) : JobProxied(i, r, TRUE)

\* C39: the key-removal command is issued in exactly the runs that passed the
\* install step without an exception.  A job that has issued it was connected, got
\* running from deploy_compose and raised nothing; a job whose deploy_compose did
\* not return running, or that raised, ends failed and never issues it; and when
\* the server key file exists, a job past the install step ends only failed or
\* through the key-removal command: it is never marked complete before it
C39_RevokeOnlyAfterInstall ==
    /\ [](\A i \in 1..Len(tasks) :
            /\ tasks[i].revokes <= 1
            /\ tasks[i].revokes = 1 =>
                  /\ tasks[i].connected /\ tasks[i].composes = 1
                  /\ tasks[i].deployed = "running"
                  /\ tasks[i].raised = NONE
            /\ (tasks[i].pc = "ended"
                   /\ (tasks[i].deployed # "running" \/ tasks[i].raised # NONE)) =>
                  /\ tasks[i].revokes = 0
                  /\ OwnJob(i) => jobs[tasks[i].job].status = "failed")
    /\ [][\A i \in 1..Len(tasks) :
            /\ StepWithKey(i) =>
                  \/ tasks'[i].pc \in {"lookup", "proxy"}
                  \/ tasks'[i].pc = "revoke" /\ tasks'[i].revokes = 1
                  \/ /\ tasks'[i].pc = "ended" /\ tasks'[i].revokes = 0
                     /\ tasks'[i].deployed # "running"
                     /\ jobs'[tasks[i].job].status = "failed"
            /\ (tasks[i].pc # "ended" /\ tasks'[i].pc = "ended"
                   /\ jobs'[tasks[i].job].status = "complete"
                   /\ tasks[i].pc # "revoke") =>
                  /\ tasks'[i].revokes = 0
                  /\ ~StepWithKey(i)
         ]_vars

\* two ends of a job: one raised in its publish phase and issued no key removal,
\* and one issued it after a failed proxy set-up and is complete
C39_Witness ==
    /\ Len(tasks) = 2
    /\ \E i, k \in 1..2 :
          /\ tasks[i].pc = "ended" /\ tasks[i].raised = SaveErrorMessage
          /\ tasks[i].proxies = 1 /\ tasks[i].revokes = 0
          /\ jobs[tasks[i].job].status = "failed"
          /\ tasks[k].pc = "ended" /\ tasks[k].revokes = 1
          /\ tasks[k].deployed = "running"
          /\ jobs[tasks[k].job].status = "complete"

=============================================================================
